---- MODULE Spec2Model ----
(***************************************************************************)
(* A model of the symbol-graph construction and incremental-maintenance    *)
(* engine of clangd-graph-rag:                                             *)
(*   - the clangd index tables (clangd_index_yaml_parser.py),              *)
(*   - the call-graph extractors (clangd_call_graph_builder.py),           *)
(*   - the span/symbol reconciler (source_span_provider.py),               *)
(*   - the incremental scope builder (graph_update_scope_builder.py),      *)
(*   - the span forest builder (sort and stack walk over a file's spans).  *)
(*                                                                         *)
(* Python's None is the string None; a missing Location is NoLocation and  *)
(* a missing body is NoBody.  A scope string "a::b::" is the sequence of   *)
(* its "x::" components, so scope + name + '::' is Append(scope, name).    *)
(***************************************************************************)
EXTENDS Integers, Sequences, FiniteSets, TLC

VARIABLES
    pc,                     \* position of the component under check
    symbols,                \* SymbolParser.symbols: id -> Symbol
    index_symbols,          \* SymbolParser.symbols as the index parser built it
    inheritance_relations,  \* SymbolParser.inheritance_relations: seq of <<base, derived>>
    override_relations,     \* SymbolParser.override_relations: seq of <<base, derived>>
    has_container_field,    \* SymbolParser.has_container_field
    has_call_kind,          \* SymbolParser.has_call_kind
    symbol_order,           \* iteration order of the symbols dict: seq of ids
    seed_symbol_ids,        \* argument of _create_sufficient_subset
    subset_parser,          \* the SymbolParser returned by _create_sufficient_subset
    source_spans,           \* CompilationManager.get_source_spans(): seq of SourceSpan
    type_alias_spans,       \* SourceSpanProvider.type_alias_spans: seq of TypeAliasSpan
    synthetic_id_to_index_id, \* SourceSpanProvider.synthetic_id_to_index_id
    static_call_relations,  \* CompilationManager.get_static_call_relations()
    forest_input,           \* the span set of one file
    forest_sorted,          \* the spans in walk order
    forest_stack,           \* the open nodes, innermost last (indices into forest_sorted)
    forest_roots,           \* the roots of the file's forest (indices)
    forest_children,        \* SpanTreeNode.children of each node made so far
    container_result,       \* what the container strategy returned
    spatial_result,         \* what the spatial strategy returned
    workers,                \* the _ClangWorkerImpl of each worker process
    pending,                \* items_to_process not yet taken by a worker
    futures,                \* the results of the completed futures
    merged,                 \* the futures _parallel_parse has merged
    all_spans,              \* _parallel_parse: file -> set of SourceSpan
    all_includes,           \* _parallel_parse: set of include relations
    commit_hash,            \* the commit_hash property of the graph's PROJECT node
    graph_writes,           \* the write operations the graph has received, in order
    updater                 \* GraphUpdater: its args and the locals of update()

vars == <<pc, symbols, index_symbols, inheritance_relations, override_relations,
          has_container_field, has_call_kind, symbol_order, seed_symbol_ids,
          subset_parser, source_spans, type_alias_spans, synthetic_id_to_index_id,
          static_call_relations, forest_input, forest_sorted, forest_stack,
          forest_roots, forest_children, container_result, spatial_result,
          workers, pending, futures, merged, all_spans, all_includes,
          commit_hash, graph_writes, updater>>

parserRest == <<index_symbols, inheritance_relations, override_relations,
                has_container_field, has_call_kind, symbol_order>>
parserVars == <<symbols, index_symbols, inheritance_relations, override_relations,
                has_container_field, has_call_kind, symbol_order>>

scopeVars == <<seed_symbol_ids, subset_parser>>

spanVars == <<source_spans, type_alias_spans, synthetic_id_to_index_id>>

callVars == <<static_call_relations, container_result, spatial_result>>

forestVars == <<forest_input, forest_sorted, forest_stack, forest_roots, forest_children>>

parseVars == <<workers, pending, futures, merged, all_spans, all_includes>>

updateVars == <<commit_hash, graph_writes, updater>>

(***************************************************************************)
(* Data classes                                                            *)
(***************************************************************************)
None == "None"

Sentinel == "0000000000000000"

Location(f, sl, sc, el, ec) ==
    [file_uri |-> f, start_line |-> sl, start_column |-> sc,
     end_line |-> el, end_column |-> ec]

NoLocation == Location("", -1, -1, -1, -1)

RelativeLocation(sl, sc, el, ec) ==
    [start_line |-> sl, start_column |-> sc, end_line |-> el, end_column |-> ec]

NoBody == RelativeLocation(-1, -1, -1, -1)

Reference(k, loc, cid) == [kind |-> k, location |-> loc, container_id |-> cid]

Symbol(i, n, k, decl, def, refs, sc, lang, body, par) ==
    [id |-> i, name |-> n, kind |-> k, declaration |-> decl, definition |-> def,
     references |-> refs, scope |-> sc, language |-> lang,
     body_location |-> body, parent_id |-> par]

\* SymInfo.Lang of the symbols of the index, and the language of the parsed
\* files (get_language).
Language == "Cpp"

FunctionKinds ==
    {"Function", "InstanceMethod", "StaticMethod", "Constructor", "Destructor",
     "ConversionFunction"}

is_function(sym) == sym.kind \in FunctionKinds

\* Python truthiness of an optional id: None and '' are false.
Truthy(x) == x # None /\ x # ""

RangeOf(s) == {s[i] : i \in 1..Len(s)}

RECURSIVE SetToSeq(_)
SetToSeq(S) ==
    IF S = {} THEN <<>>
    ELSE LET x == CHOOSE y \in S : TRUE IN <<x>> \o SetToSeq(S \ {x})

(***************************************************************************)
(* Call-graph extractors (clangd_call_graph_builder.py)                    *)
(***************************************************************************)
\* The iteration order of a table restricted to the ids it holds.
OrderOf(syms, order) == SelectSeq(order, LAMBDA i : i \in DOMAIN syms)

\* A defaultdict(set) filled by map[k].add(v) for every <<k, v>> emitted.
MapOfPairs(pairs) ==
    [k \in {p[1] : p \in pairs} |-> {p[2] : p \in {q \in pairs : q[1] = k}}]

PairsOfMap(m) == UNION {{<<k, v>> : v \in m[k]} : k \in DOMAIN m}

\* Variant: a body that starts and ends on one line contains nothing.
_is_location_within_function_bodyMultiLine(call_loc, body_loc, body_file_uri) ==
    /\ call_loc.file_uri = body_file_uri
    /\ body_loc.start_line # body_loc.end_line
    /\ \/ call_loc.start_line > body_loc.start_line
       \/ /\ call_loc.start_line = body_loc.start_line
          /\ call_loc.start_column >= body_loc.start_column
    /\ \/ call_loc.end_line < body_loc.end_line
       \/ /\ call_loc.end_line = body_loc.end_line
          /\ call_loc.end_column <= body_loc.end_column

\* Variant: only the start of the body is compared.
_is_location_within_function_bodyStartOnly(call_loc, body_loc, body_file_uri) ==
    /\ call_loc.file_uri = body_file_uri
    /\ \/ call_loc.start_line > body_loc.start_line
       \/ /\ call_loc.start_line = body_loc.start_line
          /\ call_loc.start_column >= body_loc.start_column

_is_location_within_function_body(call_loc, body_loc, body_file_uri) ==
    IF call_loc.file_uri # body_file_uri THEN FALSE
    ELSE
        LET start_ok ==
                \/ call_loc.start_line > body_loc.start_line
                \/ /\ call_loc.start_line = body_loc.start_line
                   /\ call_loc.start_column >= body_loc.start_column
            end_ok ==
                \/ call_loc.end_line < body_loc.end_line
                \/ /\ call_loc.end_line = body_loc.end_line
                   /\ call_loc.end_column <= body_loc.end_column
        IN start_ok /\ end_ok

\* list.sort(key=start_line): a stable insertion sort of a sequence of ids.
RECURSIVE InsertByStartLine(_, _, _)
InsertByStartLine(syms, sorted, i) ==
    IF sorted = <<>> THEN <<i>>
    ELSE IF syms[i].body_location.start_line < syms[Head(sorted)].body_location.start_line
         THEN <<i>> \o sorted
         ELSE <<Head(sorted)>> \o InsertByStartLine(syms, Tail(sorted), i)

RECURSIVE SortByStartLine(_, _)
SortByStartLine(syms, ids) ==
    IF ids = <<>> THEN <<>>
    ELSE InsertByStartLine(syms,
             SortByStartLine(syms, SubSeq(ids, 1, Len(ids) - 1)), ids[Len(ids)])

\* file_to_function_bodies_index[file_uri]: the callables with a body and a
\* definition in file_uri, sorted by the start line of the body.
FunctionBodiesIndex(syms, order, file_uri) ==
    SortByStartLine(syms,
        SelectSeq(OrderOf(syms, order),
            LAMBDA i : /\ is_function(syms[i])
                       /\ syms[i].body_location # NoBody
                       /\ syms[i].definition # NoLocation
                       /\ syms[i].definition.file_uri = file_uri))

\* for body_loc, caller_symbol in index[file]: if within: ...; break
RECURSIVE FirstContainingBody(_, _, _)
FirstContainingBody(syms, bodies, call_location) ==
    IF bodies = <<>> THEN None
    ELSE IF _is_location_within_function_body(call_location,
                syms[Head(bodies)].body_location, call_location.file_uri)
         THEN Head(bodies)
         ELSE FirstContainingBody(syms, Tail(bodies), call_location)

\* Variant: the legacy kinds whatever the format.
ValidCallKindsLegacyOnly(hck) == {4, 12}

ValidCallKinds(hck) == IF hck THEN {20, 28} ELSE {4, 12}

\* Every (symbol id, index into its references list) of the table.
RefSlots(syms) ==
    UNION {{<<c, n>> : n \in 1..Len(syms[c].references)} : c \in DOMAIN syms}

SpatialCaller(syms, order, ref) ==
    FirstContainingBody(syms,
        FunctionBodiesIndex(syms, order, ref.location.file_uri), ref.location)

\* The <<caller, callee>> pairs the spatial strategy emits: one per call-kind
\* reference of a callable symbol that lies in some indexed body.
SpatialEmitted(syms, order, hck) ==
    {<<SpatialCaller(syms, order, syms[s[1]].references[s[2]]), s[1]>> :
        s \in {t \in RefSlots(syms) :
                /\ is_function(syms[t[1]])
                /\ syms[t[1]].references[t[2]].kind \in ValidCallKinds(hck)
                /\ SpatialCaller(syms, order, syms[t[1]].references[t[2]]) # None}}

\* Variant: the container is not looked up in the table.
ContainerEmittedAnyCaller(syms) ==
    {<<syms[s[1]].references[s[2]].container_id, s[1]>> :
        s \in {t \in RefSlots(syms) :
                LET reference == syms[t[1]].references[t[2]] IN
                /\ is_function(syms[t[1]])
                /\ Truthy(reference.container_id)
                /\ reference.container_id # Sentinel
                /\ reference.kind \in {20, 28}}}

\* The <<caller, callee>> pairs the container strategy emits.
ContainerEmitted(syms) ==
    {<<syms[s[1]].references[s[2]].container_id, s[1]>> :
        s \in {t \in RefSlots(syms) :
                LET reference == syms[t[1]].references[t[2]] IN
                /\ is_function(syms[t[1]])
                /\ Truthy(reference.container_id)
                /\ reference.container_id # Sentinel
                /\ reference.kind \in {20, 28}
                /\ reference.container_id \in DOMAIN syms
                /\ is_function(syms[reference.container_id])}}

\* Variant: a call of a function by itself is left out of callee_to_callers.
CallMapsNoSelfCallers(emitted, generate_bidirectional) ==
    [ran |-> TRUE,
     generate_bidirectional |-> generate_bidirectional,
     caller_to_callees |-> MapOfPairs(emitted),
     callee_to_callers |->
        IF generate_bidirectional
        THEN MapOfPairs({<<p[2], p[1]>> : p \in {q \in emitted : q[1] # q[2]}})
        ELSE <<>>]

\* What extract_call_relationships returns: caller_to_callees is keyed by the
\* caller, callee_to_callers by the callee and is None unless requested.
\* (callee_to_callers is the empty map when it was not requested.)
CallMaps(emitted, generate_bidirectional) ==
    [ran |-> TRUE,
     generate_bidirectional |-> generate_bidirectional,
     caller_to_callees |-> MapOfPairs(emitted),
     callee_to_callers |->
        IF generate_bidirectional
        THEN MapOfPairs({<<p[2], p[1]>> : p \in emitted})
        ELSE <<>>]

\* No extraction has run.
NotRun ==
    [ran |-> FALSE, generate_bidirectional |-> FALSE,
     caller_to_callees |-> <<>>, callee_to_callers |-> <<>>]

WithoutContainer_extract_call_relationships(syms, order, hck, generate_bidirectional) ==
    CallMaps(SpatialEmitted(syms, order, hck), generate_bidirectional)

WithContainer_extract_call_relationships(syms, generate_bidirectional) ==
    CallMaps(ContainerEmitted(syms), generate_bidirectional)

\* dict.get(key, set())
GetSet(m, k) == IF k \in DOMAIN m THEN m[k] ELSE {}

(***************************************************************************)
(* Incremental scope builder (graph_update_scope_builder.py)               *)
(***************************************************************************)
QualifiedName(sym) == Append(sym.scope, sym.name)

\* dict[key] = value
DictPut(d, key, value) ==
    [k \in DOMAIN d \cup {key} |-> IF k = key THEN value ELSE d[k]]

\* for sym in symbols.values(): if sym.kind == 'Namespace': map[qualified] = sym.id
RECURSIVE ScopeMapsFrom(_, _, _)
ScopeMapsFrom(syms, ord, qualified_namespace_to_id) ==
    IF ord = <<>> THEN qualified_namespace_to_id
    ELSE ScopeMapsFrom(syms, Tail(ord),
            IF syms[Head(ord)].kind = "Namespace"
            THEN DictPut(qualified_namespace_to_id, QualifiedName(syms[Head(ord)]), Head(ord))
            ELSE qualified_namespace_to_id)

\* qualified_namespace_to_id: a later Namespace symbol of the same qualified
\* name overwrites an earlier one.
_build_scope_maps(syms, order) == ScopeMapsFrom(syms, OrderOf(syms, order), <<>>)

\* containment_graph[p]['children']
ContainmentChildren(syms, p) ==
    {i \in DOMAIN syms : Truthy(syms[i].parent_id) /\ syms[i].parent_id = p}

\* inheritance_graph / override_graph: [x]['parents'|'overriding'] are the
\* subjects of the pairs whose object is x, [x]['children'|'overridden'] the
\* objects of the pairs whose subject is x.
RelationSubjects(rel, x) == {p[1] : p \in {q \in RangeOf(rel) : q[2] = x}}

RelationObjects(rel, x) == {p[2] : p \in {q \in RangeOf(rel) : q[1] = x}}

\* The call maps used for expansion: only the container strategy is run.
ExpansionCallMaps(syms, hcf) ==
    IF hcf THEN WithContainer_extract_call_relationships(syms, TRUE)
    ELSE CallMaps({}, TRUE)

\* DirectDependencyCandidates without step 6, the lexical children.
DirectDependencyCandidatesNoChildren(syms, order, inh, ovr, hcf, symbol_id) ==
    LET calls == ExpansionCallMaps(syms, hcf)
        symbol == syms[symbol_id]
        ns == _build_scope_maps(syms, order)
    IN  GetSet(calls.caller_to_callees, symbol_id)
        \cup GetSet(calls.callee_to_callers, symbol_id)
        \cup (IF Truthy(symbol.parent_id) THEN {symbol.parent_id} ELSE {})
        \cup (IF symbol.scope # <<>> /\ symbol.scope \in DOMAIN ns
              THEN {ns[symbol.scope]} ELSE {})
        \cup RelationSubjects(inh, symbol_id) \cup RelationObjects(inh, symbol_id)
        \cup RelationObjects(ovr, symbol_id) \cup RelationSubjects(ovr, symbol_id)

\* Every id handed to add_symbol while the seed symbol_id is processed.
DirectDependencyCandidates(syms, order, inh, ovr, hcf, symbol_id) ==
    LET calls == ExpansionCallMaps(syms, hcf)
        symbol == syms[symbol_id]
        ns == _build_scope_maps(syms, order)
    IN  GetSet(calls.caller_to_callees, symbol_id)
        \cup GetSet(calls.callee_to_callers, symbol_id)
        \cup (IF Truthy(symbol.parent_id) THEN {symbol.parent_id} ELSE {})
        \cup (IF symbol.scope # <<>> /\ symbol.scope \in DOMAIN ns
              THEN {ns[symbol.scope]} ELSE {})
        \cup RelationSubjects(inh, symbol_id) \cup RelationObjects(inh, symbol_id)
        \cup RelationObjects(ovr, symbol_id) \cup RelationSubjects(ovr, symbol_id)
        \cup ContainmentChildren(syms, symbol_id)

\* add_symbol over the candidates of one seed: an id missing from the table is
\* skipped, an id already in final_symbol_ids is not added again.
add_symbols(syms, acc, candidates) ==
    LET new == {c \in candidates : c \in DOMAIN syms /\ c \notin acc.final_symbol_ids}
    IN [final_symbol_ids |-> acc.final_symbol_ids \cup new,
        direct_dependencies |-> acc.direct_dependencies \cup new]

\* for symbol_id in seed_symbol_ids: ... (a seed missing from the table is skipped)
RECURSIVE ExpandSeeds(_, _, _, _, _, _, _)
ExpandSeeds(syms, order, inh, ovr, hcf, todo, acc) ==
    IF todo = {} THEN acc
    ELSE LET symbol_id == CHOOSE x \in todo : TRUE
             next == IF symbol_id \notin DOMAIN syms THEN acc
                     ELSE add_symbols(syms, acc,
                            DirectDependencyCandidates(syms, order, inh, ovr, hcf, symbol_id))
         IN ExpandSeeds(syms, order, inh, ovr, hcf, todo \ {symbol_id}, next)

\* FinalSymbolIds expanding a second level, from the first level's result.
FinalSymbolIdsTwoLevels(syms, order, inh, ovr, hcf, seeds) ==
    LET first == ExpandSeeds(syms, order, inh, ovr, hcf, seeds,
                   [final_symbol_ids |-> seeds, direct_dependencies |-> {}])
        second == ExpandSeeds(syms, order, inh, ovr, hcf, first.final_symbol_ids, first)
    IN second.final_symbol_ids \cup second.direct_dependencies

\* FinalSymbolIds returning the direct dependencies without the seeds.
FinalSymbolIdsDependenciesOnly(syms, order, inh, ovr, hcf, seeds) ==
    ExpandSeeds(syms, order, inh, ovr, hcf, seeds,
        [final_symbol_ids |-> seeds, direct_dependencies |-> {}]).direct_dependencies

FinalSymbolIds(syms, order, inh, ovr, hcf, seeds) ==
    LET acc == ExpandSeeds(syms, order, inh, ovr, hcf, seeds,
                   [final_symbol_ids |-> seeds, direct_dependencies |-> {}])
    IN acc.final_symbol_ids \cup acc.direct_dependencies

\* FilterRelations keeping a pair when either endpoint is in the subset.
FilterRelationsEitherEndpoint(rel, final_symbol_ids) ==
    SelectSeq(rel, LAMBDA p : p[1] \in final_symbol_ids \/ p[2] \in final_symbol_ids)

FilterRelations(rel, final_symbol_ids) ==
    SelectSeq(rel, LAMBDA p : p[1] \in final_symbol_ids /\ p[2] \in final_symbol_ids)

\* Variant: no test that an id is in the full table, neither in add_symbol nor
\* when the subset is built; an id without symbol gets an empty one.
_create_sufficient_subsetUnchecked(syms, order, inh, ovr, hcf, hck, seeds) ==
    LET final_symbol_ids ==
            seeds \cup UNION {DirectDependencyCandidates(syms, order, inh, ovr, hcf, s) :
                                s \in seeds \cap DOMAIN syms}
    IN [symbols |-> [i \in final_symbol_ids |->
                        IF i \in DOMAIN syms THEN syms[i]
                        ELSE Symbol(i, "", "", NoLocation, NoLocation, <<>>, <<>>,
                                    "", NoBody, None)],
        functions |-> {i \in final_symbol_ids \cap DOMAIN syms : is_function(syms[i])},
        has_container_field |-> hcf,
        has_call_kind |-> hck,
        inheritance_relations |-> FilterRelations(inh, final_symbol_ids),
        override_relations |-> FilterRelations(ovr, final_symbol_ids)]

_create_sufficient_subset(syms, order, inh, ovr, hcf, hck, seeds) ==
    LET final_symbol_ids == FinalSymbolIds(syms, order, inh, ovr, hcf, seeds)
        kept == final_symbol_ids \cap DOMAIN syms
    IN [symbols |-> [i \in kept |-> syms[i]],
        functions |-> {i \in kept : is_function(syms[i])},
        has_container_field |-> hcf,
        has_call_kind |-> hck,
        inheritance_relations |-> FilterRelations(inh, final_symbol_ids),
        override_relations |-> FilterRelations(ovr, final_symbol_ids)]

\* The full parser's table after extract_call_relationships or
\* _create_sufficient_subset returned.  Both iterate symbols.values() and
\* functions.items() and read fields; what they write is local: the dict
\* functions_with_bodies, unbound by `del`, the index lists they sort, the
\* defaultdict graphs, and the dicts of the new SymbolParser, which the
\* constructor creates.
\* Variant: functions_with_bodies is the table itself, and `del` empties it of
\* the symbols that have a body.
SymbolsAfterReadAliased(syms) ==
    [i \in {j \in DOMAIN syms : syms[j].body_location = NoBody} |-> syms[i]]

SymbolsAfterRead(syms) == syms

NoParser ==
    [symbols |-> <<>>, functions |-> {}, has_container_field |-> FALSE,
     has_call_kind |-> FALSE, inheritance_relations |-> <<>>,
     override_relations |-> <<>>]

(***************************************************************************)
(* Inputs of the scope builder: an enriched index over a fixed set of      *)
(* symbols, varied by at most MaxFacts relation facts.                     *)
(***************************************************************************)
MaxFacts == 2

MaxSeeds == 2

\* Sets of at most k elements of S.
RECURSIVE UpTo(_, _)
UpTo(S, k) ==
    IF k = 0 THEN {{}}
    ELSE LET prev == UpTo(S, k - 1)
         IN prev \cup {p \cup {x} : p \in prev, x \in S}

SrcFile == "file:///proj/a.cpp"

\* Classes A, B, C, a method m with body lines 4..9, a function f with body
\* lines 11..15, a namespace N; Z is an id no symbol of the table has.
ScopeIds == {"N", "A", "B", "C", "m", "f"}

ScopeOrder == <<"N", "A", "B", "C", "m", "f">>

AbsentId == "Z"

ScopeKind(i) ==
    CASE i = "N" -> "Namespace"
      [] i = "m" -> "InstanceMethod"
      [] i = "f" -> "Function"
      [] OTHER -> "Class"

ScopeDefinition(i) ==
    CASE i = "N" -> Location(SrcFile, 0, 10, 0, 11)
      [] i = "A" -> Location(SrcFile, 1, 6, 1, 7)
      [] i = "B" -> Location(SrcFile, 2, 6, 2, 7)
      [] i = "C" -> Location(SrcFile, 3, 6, 3, 7)
      [] i = "m" -> Location(SrcFile, 4, 8, 4, 9)
      [] OTHER -> Location(SrcFile, 11, 5, 11, 6)

ScopeBody(i) ==
    CASE i = "m" -> RelativeLocation(4, 0, 9, 1)
      [] i = "f" -> RelativeLocation(11, 0, 15, 1)
      [] OTHER -> NoBody

\* Where a reference can be: inside m's body, inside f's body, outside both.
RefLocation(l) ==
    CASE l = "in_m" -> Location(SrcFile, 7, 4, 7, 5)
      [] l = "in_f" -> Location(SrcFile, 13, 4, 13, 5)
      [] OTHER -> Location(SrcFile, 20, 0, 20, 1)

Fact(t, a, b, k, l) == [t |-> t, a |-> a, b |-> b, k |-> k, l |-> l]

\* base/derived pairs among the classes and the absent id
InheritanceFacts ==
    {Fact("inh", p[1], p[2], 0, "") :
        p \in {q \in {"A", "B", "C", AbsentId} \X {"A", "B", "C", AbsentId} : q[1] # q[2]}}

\* overridden/overriding pairs among the callables and the absent id
OverrideFacts ==
    {Fact("ovr", p[1], p[2], 0, "") :
        p \in {q \in {"m", "f", AbsentId} \X {"m", "f", AbsentId} : q[1] # q[2]}}

\* parent_id as the reconciler leaves it: a is the child, b the parent
ParentFacts ==
    {Fact("parent", p[1], p[2], 0, "") :
        p \in {q \in {"m", "f", "C"} \X {"C", "N", AbsentId} : q[1] # q[2]}}

\* the Scope field of a symbol: N:: names the namespace N, Q:: no symbol
ScopeFacts == {Fact("scope", a, b, 0, "") : a \in {"m", "f", "C"}, b \in {"N", "Q"}}

\* a reference to the callable a of kind k: in the legacy format (container
\* None) inside a body, in the modern format with the container of its place
ReferenceFacts ==
    {Fact("ref", a, c[1], 28, c[2]) :
        a \in {"m", "f"},
        c \in {<<None, "in_m">>, <<None, "in_f">>, <<"m", "in_m">>, <<"f", "in_f">>,
               <<AbsentId, "out">>, <<"C", "out">>}}
    \cup {Fact("ref", a, c[1], 12, c[2]) :
            a \in {"m", "f"},
            c \in {<<None, "in_m">>, <<None, "in_f">>, <<"f", "in_f">>}}

ScopeFacts_All ==
    InheritanceFacts \cup OverrideFacts \cup ParentFacts \cup ScopeFacts \cup ReferenceFacts

\* A symbol has one parent_id and one scope.
ConsistentFacts(F) ==
    \A x \in F, y \in F : (x.t = y.t /\ x.t \in {"parent", "scope"} /\ x.a = y.a) => x = y

ScopeInputs == {F \in UpTo(ScopeFacts_All, MaxFacts) : ConsistentFacts(F)}

SeedSets == UpTo(ScopeIds, MaxSeeds)

FactParent(F, i) ==
    IF \E x \in F : x.t = "parent" /\ x.a = i
    THEN (CHOOSE x \in F : x.t = "parent" /\ x.a = i).b
    ELSE None

FactScope(F, i) ==
    IF \E x \in F : x.t = "scope" /\ x.a = i
    THEN <<(CHOOSE x \in F : x.t = "scope" /\ x.a = i).b>>
    ELSE <<>>

FactReferences(F, i) ==
    SetToSeq({Reference(x.k, RefLocation(x.l), x.b) : x \in {y \in F : y.t = "ref" /\ y.a = i}})

FactRelations(F, t) == SetToSeq({<<x.a, x.b>> : x \in {y \in F : y.t = t}})

ScopeSymbols(F) ==
    [i \in ScopeIds |->
        Symbol(i, i, ScopeKind(i), ScopeDefinition(i), ScopeDefinition(i),
               FactReferences(F, i), FactScope(F, i), Language, ScopeBody(i),
               FactParent(F, i))]

\* build_cross_references: the index has the container field once a linked
\* reference carries a container id, and call kinds once it has the container
\* field or a reference of kind >= 16.
DetectContainerField(syms) ==
    \E s \in RefSlots(syms) : Truthy(syms[s[1]].references[s[2]].container_id)

DetectCallKind(syms) ==
    \/ DetectContainerField(syms)
    \/ \E s \in RefSlots(syms) : syms[s[1]].references[s[2]].kind >= 16

ScopeIdle == seed_symbol_ids = {} /\ subset_parser = NoParser

ParseIdle ==
    /\ workers = <<>>
    /\ pending = {}
    /\ futures = {}
    /\ merged = {}
    /\ all_spans = <<>>
    /\ all_includes = {}

UpdateIdle ==
    /\ commit_hash = "None"
    /\ graph_writes = <<>>
    /\ updater = <<>>

SpansIdle ==
    /\ source_spans = <<>>
    /\ type_alias_spans = <<>>
    /\ synthetic_id_to_index_id = <<>>

ForestIdle ==
    /\ forest_input = {}
    /\ forest_sorted = <<>>
    /\ forest_stack = <<>>
    /\ forest_roots = <<>>
    /\ forest_children = <<>>

CallsIdle ==
    /\ static_call_relations = {}
    /\ container_result = NotRun
    /\ spatial_result = NotRun

InitScope ==
    \E F \in ScopeInputs :
        /\ pc = "scope_ready"
        /\ UpdateIdle
        /\ symbols = ScopeSymbols(F)
        /\ index_symbols = ScopeSymbols(F)
        /\ symbol_order = ScopeOrder
        /\ inheritance_relations = FactRelations(F, "inh")
        /\ override_relations = FactRelations(F, "ovr")
        /\ has_container_field = DetectContainerField(ScopeSymbols(F))
        /\ has_call_kind = DetectCallKind(ScopeSymbols(F))
        /\ ScopeIdle
        /\ ParseIdle
        /\ ForestIdle
        /\ SpansIdle
        /\ CallsIdle

\* build_miniparser_for_dirty_scope, step 4: the seeds are ids of the table.
CreateSufficientSubset ==
    /\ pc = "scope_ready"
    /\ \E seeds \in SeedSets :
        /\ seeds \subseteq DOMAIN symbols
        /\ seed_symbol_ids' = seeds
        /\ subset_parser' = _create_sufficient_subset(symbols, symbol_order,
                inheritance_relations, override_relations,
                has_container_field, has_call_kind, seeds)
    /\ symbols' = SymbolsAfterRead(symbols)
    /\ pc' = "scope_done"
    /\ UNCHANGED <<updateVars, parserRest, spanVars, callVars, forestVars, parseVars>>

NextScope == CreateSufficientSubset

SpecScope == InitScope /\ [][NextScope]_vars

(***************************************************************************)
(* Properties of the scope builder                                         *)
(***************************************************************************)
ScopeDone == pc = "scope_done"

SubsetKeys == DOMAIN subset_parser.symbols

\* The call graph of the index: the edges of the strategy its format selects.
IndexCallEdges ==
    IF has_container_field THEN ContainerEmitted(symbols)
    ELSE SpatialEmitted(symbols, symbol_order, has_call_kind)

\* The ids one hop from s, the call relation being the set of pairs calls.
OneHop(calls, s) ==
    {x \in ScopeIds \cup {AbsentId} :
        \/ <<s, x>> \in calls                                           \* callee
        \/ <<x, s>> \in calls                                           \* caller
        \/ symbols[s].parent_id = x                                     \* lexical parent
        \/ /\ x \in DOMAIN symbols                                      \* namespace parent
           /\ symbols[x].kind = "Namespace"
           /\ Append(symbols[x].scope, symbols[x].name) = symbols[s].scope
        \/ <<x, s>> \in RangeOf(inheritance_relations)                  \* base
        \/ <<s, x>> \in RangeOf(inheritance_relations)                  \* derived
        \/ <<x, s>> \in RangeOf(override_relations)                     \* overridden
        \/ <<s, x>> \in RangeOf(override_relations)                     \* overriding
        \/ x \in DOMAIN symbols /\ symbols[x].parent_id = s}            \* lexical child

\* C1 as stated: in every index format the subset holds every id of the table
\* that is one hop from a seed via any of the six relations, the call relation
\* being the call graph of the index.
C1_OneHopIncludedAnyFormat ==
    ScopeDone =>
        \A s \in seed_symbol_ids :
            OneHop(IndexCallEdges, s) \cap DOMAIN symbols \subseteq SubsetKeys

\* C1 amended: the subset holds every id of the table that is one hop from a
\* seed via lexical parent, namespace parent, inheritance, override or lexical
\* child in every format, and via a call edge when the index has the container
\* field; an index without the container field contributes no call edge.
C1_OneHopIncluded ==
    ScopeDone =>
        \A s \in seed_symbol_ids :
            OneHop(IF has_container_field THEN ContainerEmitted(symbols) ELSE {}, s)
                \cap DOMAIN symbols \subseteq SubsetKeys

\* A seed whose caller and whose lexical child, neither a seed, are in the subset.
C1_Witness ==
    /\ ScopeDone
    /\ has_container_field
    /\ seed_symbol_ids = {"m"}
    /\ <<"f", "m">> \in ContainerEmitted(symbols)
    /\ symbols["m"].parent_id = "C"
    /\ {"f", "C"} \subseteq SubsetKeys

\* C2: expansion is single-level: every key of the subset is a seed or one hop
\* from a seed; an id two or more hops away is not a key.  With seed {C} whose
\* one-hop neighbours are the base B and the method m, the subset is {C, B, m}.
C2_SingleLevel ==
    ScopeDone =>
        /\ \A x \in SubsetKeys :
                \/ x \in seed_symbol_ids
                \/ \E s \in seed_symbol_ids : x \in OneHop(IndexCallEdges, s)
        /\ (seed_symbol_ids = {"C"} /\ OneHop(IndexCallEdges, "C") = {"B", "m"})
                => SubsetKeys = {"C", "B", "m"}

\* Seed {C}, C derives from B, B derives from A: B is kept, B's base A is not.
C2_Witness ==
    /\ ScopeDone
    /\ seed_symbol_ids = {"C"}
    /\ RangeOf(inheritance_relations) = {<<"B", "C">>, <<"A", "B">>}
    /\ SubsetKeys = {"C", "B"}

\* C3: every seed is a key of the subset symbol table.
C3_SeedsKept == ScopeDone => seed_symbol_ids \subseteq SubsetKeys

\* Two seeds, one of them with a dependency that is not a seed.
C3_Witness ==
    /\ ScopeDone
    /\ Cardinality(seed_symbol_ids) = 2
    /\ seed_symbol_ids \subseteq SubsetKeys
    /\ SubsetKeys # seed_symbol_ids

BothEndpointsIn(rel, keys) == SelectSeq(rel, LAMBDA p : p[1] \in keys /\ p[2] \in keys)

\* C4: the subset's inheritance and override lists are exactly the pairs of the
\* full lists whose two endpoints are keys of the subset symbol table.
C4_RelationsFiltered ==
    ScopeDone =>
        /\ subset_parser.inheritance_relations =
                BothEndpointsIn(inheritance_relations, SubsetKeys)
        /\ subset_parser.override_relations =
                BothEndpointsIn(override_relations, SubsetKeys)

\* One inheritance pair is kept and another, with an endpoint outside the
\* subset, is dropped.
C4_Witness ==
    /\ ScopeDone
    /\ Len(inheritance_relations) = 2
    /\ Len(subset_parser.inheritance_relations) = 1
    /\ \E i \in 1..2 : inheritance_relations[i][2] \in SubsetKeys
                       /\ inheritance_relations[i][1] \notin SubsetKeys

\* The ids the relation tables of the index mention: endpoints of call edges,
\* parents, and endpoints of inheritance and override pairs.
MentionedIds ==
    UNION {{p[1], p[2]} : p \in IndexCallEdges \cup RangeOf(inheritance_relations)
                                   \cup RangeOf(override_relations)}
    \cup {symbols[i].parent_id : i \in {j \in DOMAIN symbols : Truthy(symbols[j].parent_id)}}
    \cup UNION {{r.container_id : r \in RangeOf(symbols[i].references)} : i \in DOMAIN symbols}

\* C15: whatever ids absent from the table the relation tables mention, every
\* key of the symbol table of the subset _create_sufficient_subset returned
\* is an id of the full table.
C15_AbsentIdsSkipped == ScopeDone => SubsetKeys \subseteq DOMAIN symbols

\* The subset was built from seeds one hop from an id absent from the table.
C15_Witness ==
    /\ ScopeDone
    /\ SubsetKeys # {}
    /\ \E s \in seed_symbol_ids : AbsentId \in OneHop(IndexCallEdges, s)
    /\ AbsentId \in MentionedIds

(***************************************************************************)
(* Static call injection (source_span_provider.py)                         *)
(***************************************************************************)
DummyLocation == Location("", 0, 0, 0, 0)

\* for caller_usr, callee_usr in static_calls: a kind-28 reference with a
\* dummy location and container caller_usr is appended to the callee, if the
\* callee is in the table.
RECURSIVE InjectStaticCalls(_, _)
InjectStaticCalls(syms, static_calls) ==
    IF static_calls = <<>> THEN syms
    ELSE LET caller_usr == Head(static_calls)[1]
             callee_usr == Head(static_calls)[2]
             injected ==
                IF callee_usr \in DOMAIN syms
                THEN [syms EXCEPT ![callee_usr].references =
                        Append(@, Reference(28, DummyLocation, caller_usr))]
                ELSE syms
         IN InjectStaticCalls(injected, Tail(static_calls))

_enrich_with_static_calls(syms, static_calls) ==
    IF static_calls = {} THEN syms
    ELSE InjectStaticCalls(syms, SetToSeq(static_calls))

(***************************************************************************)
(* Inputs of the call-graph extractors: functions foo (body lines 5..9)    *)
(* and bar (body lines 11..14), optionally a method lam of a local class   *)
(* nested in foo (body on line 8), a variable v whose initializer is on    *)
(* line 16 and a class K, varied by at most MaxRefs references.            *)
(***************************************************************************)
MaxRefs == 2

CallIds(nested) == {"foo", "bar", "v", "K"} \cup (IF nested THEN {"lam"} ELSE {})

CallOrder == <<"K", "foo", "lam", "bar", "v">>

CallKind(i) ==
    CASE i \in {"foo", "bar"} -> "Function"
      [] i = "lam" -> "InstanceMethod"
      [] i = "v" -> "Variable"
      [] OTHER -> "Class"

CallDefinition(i) ==
    CASE i = "K" -> Location(SrcFile, 1, 6, 1, 7)
      [] i = "foo" -> Location(SrcFile, 5, 5, 5, 8)
      [] i = "lam" -> Location(SrcFile, 8, 4, 8, 7)
      [] i = "bar" -> Location(SrcFile, 11, 5, 11, 8)
      [] OTHER -> Location(SrcFile, 16, 4, 16, 5)

CallBody(i) ==
    CASE i = "foo" -> RelativeLocation(5, 0, 9, 1)
      [] i = "lam" -> RelativeLocation(8, 8, 8, 40)
      [] i = "bar" -> RelativeLocation(11, 0, 14, 1)
      [] OTHER -> NoBody

\* Where a call can be: in foo's body on line 7, in lam's body (nested in
\* foo's), in bar's body, in v's initializer, at top level.
CallLocation(l) ==
    CASE l = "in_lam" -> Location(SrcFile, 8, 12, 8, 15)
      [] l = "lam_body" -> Location(SrcFile, 8, 8, 8, 40)
      [] l = "in_foo" -> Location(SrcFile, 7, 4, 7, 7)
      [] l = "in_bar" -> Location(SrcFile, 12, 4, 12, 7)
      [] l = "at_v" -> Location(SrcFile, 16, 8, 16, 11)
      [] OTHER -> Location(SrcFile, 20, 0, 20, 3)

\* References to the callables foo and bar: in the modern format with the
\* container of their place, in the legacy format with no container; and a
\* call-kind reference to the class K.
CallReferenceFacts ==
    {Fact("ref", a, c[1], k, c[2]) :
        a \in {"foo", "bar"}, k \in {20, 28, 4},
        c \in {<<"foo", "in_foo">>, <<"bar", "in_bar">>}}
    \cup {Fact("ref", a, c[1], 28, c[2]) :
            a \in {"foo", "bar"},
            c \in {<<"lam", "in_lam">>, <<"v", "at_v">>, <<Sentinel, "out">>,
                   <<AbsentId, "out">>, <<None, "out">>}}
    \cup {Fact("ref", a, None, k, l) :
            a \in {"foo", "bar"}, k \in {28, 12}, l \in {"in_foo", "in_bar"}}
    \cup {Fact("ref", "K", "foo", 28, "in_foo")}
    \* a call of bar whose range is the whole body of lam (both from one macro)
    \cup {Fact("ref", "bar", "lam", 28, "lam_body")}

CallInputs == UpTo(CallReferenceFacts, MaxRefs)

CallFactReferences(F, i) ==
    SetToSeq({Reference(x.k, CallLocation(x.l), x.b) : x \in {y \in F : y.a = i}})

CallSymbols(F, nested) ==
    [i \in CallIds(nested) |->
        Symbol(i, i, CallKind(i), CallDefinition(i), CallDefinition(i),
               CallFactReferences(F, i), <<>>, Language, CallBody(i),
               IF i = "lam" THEN "foo" ELSE None)]

\* The <<caller_usr, callee_usr>> pairs the source parser reports.
StaticCallInputs == {{}, {<<"foo", "bar">>}, {<<AbsentId, "foo">>}}

InitCalls ==
    \E F \in CallInputs, nested \in BOOLEAN, static \in StaticCallInputs :
        /\ pc = "type_aliases_enriched"
        /\ UpdateIdle
        /\ symbols = CallSymbols(F, nested)
        /\ index_symbols = CallSymbols(F, nested)
        /\ symbol_order = CallOrder
        /\ inheritance_relations = <<>>
        /\ override_relations = <<>>
        /\ has_container_field = DetectContainerField(CallSymbols(F, nested))
        /\ has_call_kind = DetectCallKind(CallSymbols(F, nested))
        /\ static_call_relations = static
        /\ container_result = NotRun
        /\ spatial_result = NotRun
        /\ ScopeIdle
        /\ ParseIdle
        /\ ForestIdle
        /\ SpansIdle

\* enrich_symbols_with_span, last step
EnrichWithStaticCalls ==
    /\ pc = "type_aliases_enriched"
    /\ symbols' = _enrich_with_static_calls(symbols, static_call_relations)
    /\ pc' = "enriched"
    /\ UNCHANGED <<updateVars, index_symbols, inheritance_relations, override_relations,
                   has_container_field,
                   has_call_kind, symbol_order, scopeVars, spanVars, callVars, forestVars, parseVars>>

ExtractWithContainer ==
    /\ pc = "enriched"
    /\ ~container_result.ran
    /\ \E generate_bidirectional \in BOOLEAN :
        container_result' =
            WithContainer_extract_call_relationships(symbols, generate_bidirectional)
    /\ symbols' = SymbolsAfterRead(symbols)
    /\ UNCHANGED <<updateVars, pc, parserRest, scopeVars, spanVars, static_call_relations,
                   spatial_result, forestVars, parseVars>>

ExtractWithoutContainer ==
    /\ pc = "enriched"
    /\ ~spatial_result.ran
    /\ \E generate_bidirectional \in BOOLEAN :
        spatial_result' =
            WithoutContainer_extract_call_relationships(symbols, symbol_order,
                has_call_kind, generate_bidirectional)
    /\ symbols' = SymbolsAfterRead(symbols)
    /\ UNCHANGED <<updateVars, pc, parserRest, scopeVars, spanVars, static_call_relations,
                   container_result, forestVars, parseVars>>

\* build_miniparser_for_dirty_scope, step 4, on the table the reconciler
\* enriched in step 2; the seeds are the symbols of the dirty files.  It is
\* taken once the extractors have read the table.
CreateSufficientSubsetOfEnriched ==
    /\ pc = "enriched"
    /\ container_result.ran /\ spatial_result.ran
    /\ seed_symbol_ids = {}
    /\ \E seeds \in {{"foo"}, DOMAIN symbols} :
        /\ seed_symbol_ids' = seeds
        /\ subset_parser' = _create_sufficient_subset(symbols, symbol_order,
                inheritance_relations, override_relations,
                has_container_field, has_call_kind, seeds)
    /\ symbols' = SymbolsAfterRead(symbols)
    /\ UNCHANGED <<updateVars, pc, parserRest, spanVars, callVars, forestVars, parseVars>>

NextCalls ==
    \/ EnrichWithStaticCalls
    \/ ExtractWithContainer
    \/ ExtractWithoutContainer
    \/ CreateSufficientSubsetOfEnriched

SpecCalls == InitCalls /\ [][NextCalls]_vars

(***************************************************************************)
(* Properties of the call-graph extractors                                 *)
(***************************************************************************)
Callables == {i \in DOMAIN symbols : is_function(symbols[i])}

AllReferences(i) == RangeOf(symbols[i].references)

ContainerEdges == PairsOfMap(container_result.caller_to_callees)

SpatialEdges == PairsOfMap(spatial_result.caller_to_callees)

\* loc is at or after the start of body and at or before its end.
InsideBody(loc, body) ==
    /\ \/ loc.start_line > body.start_line
       \/ (loc.start_line = body.start_line /\ loc.start_column >= body.start_column)
    /\ \/ loc.end_line < body.end_line
       \/ (loc.end_line = body.end_line /\ loc.end_column <= body.end_column)

\* The callables whose body, in the file of their definition, contains loc.
Enclosing(loc) ==
    {f \in Callables :
        /\ symbols[f].body_location # NoBody
        /\ symbols[f].definition # NoLocation
        /\ symbols[f].definition.file_uri = loc.file_uri
        /\ InsideBody(loc, symbols[f].body_location)}

\* One body ends before the other starts.
BodyBefore(a, b) ==
    \/ a.end_line < b.start_line
    \/ (a.end_line = b.start_line /\ a.end_column < b.start_column)

NonOverlappingBodies ==
    \A f, g \in Callables :
        (/\ f # g
         /\ symbols[f].body_location # NoBody
         /\ symbols[g].body_location # NoBody
         /\ symbols[f].definition.file_uri = symbols[g].definition.file_uri)
        => \/ BodyBefore(symbols[f].body_location, symbols[g].body_location)
           \/ BodyBefore(symbols[g].body_location, symbols[f].body_location)

CallKindReferences(g) ==
    {r \in AllReferences(g) : r.kind \in ValidCallKinds(has_call_kind)}

\* C9: in the spatial strategy, when callable bodies do not overlap, a
\* call-kind reference to a callable g has at most one enclosing callable f,
\* the scan finds exactly that f (and nothing when there is none), and the
\* returned map holds exactly the edges f -> g so obtained.
C9_SpatialOneEdge ==
    (spatial_result.ran /\ NonOverlappingBodies) =>
        /\ \A g \in Callables : \A r \in CallKindReferences(g) :
              /\ Cardinality(Enclosing(r.location)) <= 1
              /\ \A f \in Enclosing(r.location) : <<f, g>> \in SpatialEdges
        /\ SpatialEdges =
              {e \in Callables \X Callables :
                  \E r \in CallKindReferences(e[2]) : Enclosing(r.location) = {e[1]}}

\* Scenario B: a call-kind reference on line 7 to bar, inside foo's body
\* (lines 5..9), and the spatial strategy has returned exactly foo -> bar.
C9_Witness ==
    /\ spatial_result.ran
    /\ NonOverlappingBodies
    /\ symbols["foo"].body_location = RelativeLocation(5, 0, 9, 1)
    /\ \E r \in CallKindReferences("bar") : r.location.start_line = 7
    /\ SpatialEdges = {<<"foo", "bar">>}

BothStrategiesRan == container_result.ran /\ spatial_result.ran

\* Every reference of the table carries a container id, and every callable a
\* body location.
ContainerAndBodyData ==
    /\ \A i \in DOMAIN symbols : \A r \in AllReferences(i) :
          Truthy(r.container_id) /\ r.container_id # Sentinel
    /\ \A f \in Callables : symbols[f].body_location # NoBody

\* C7 as stated: on any table whose references carry container ids and whose
\* callables carry body locations, the two strategies return the same edges.
C7_StrategiesAgreeAnyTable ==
    (BothStrategiesRan /\ ContainerAndBodyData) => ContainerEdges = SpatialEdges

\* The container of every call reference (kind 20 or 28) to a callable is the
\* callable whose body encloses the reference, and is no callable of the
\* table when no body encloses it.
ContainersMatchBodies ==
    \A g \in Callables : \A r \in AllReferences(g) :
        r.kind \in {20, 28} =>
            IF Enclosing(r.location) # {}
            THEN r.container_id \in Enclosing(r.location)
            ELSE r.container_id \notin Callables

\* C7: the two strategies return the same edges on a table of the format
\* with container ids in which callable bodies do not overlap and the
\* container of every call reference agrees with the body enclosing it.
C7_StrategiesAgree ==
    (/\ BothStrategiesRan
     /\ has_container_field
     /\ NonOverlappingBodies
     /\ ContainersMatchBodies)
    => ContainerEdges = SpatialEdges

\* Both strategies ran on such a table and both returned foo -> bar.
C7_Witness ==
    /\ BothStrategiesRan
    /\ has_container_field
    /\ NonOverlappingBodies
    /\ ContainersMatchBodies
    /\ <<"foo", "bar">> \in ContainerEdges
    /\ ContainerEdges = SpatialEdges

\* The references the container strategy is said to turn into edges: kind 20
\* or 28, container id present and not the sentinel.
IsContainerCallReference(r) ==
    /\ r.kind \in {20, 28}
    /\ Truthy(r.container_id)
    /\ r.container_id # Sentinel

\* C8 as stated: the returned map holds container_id -> referenced symbol for
\* every such reference of every symbol, and nothing else.
C8_ContainerEdgesAnyReference ==
    container_result.ran =>
        ContainerEdges =
            UNION {{<<r.container_id, i>> :
                      r \in {x \in AllReferences(i) : IsContainerCallReference(x)}} :
                   i \in DOMAIN symbols}

\* C8: the returned map holds container_id -> referenced symbol for every
\* such reference whose referenced symbol is callable and whose container is
\* a callable symbol of the table, and nothing else.
C8_ContainerEdges ==
    container_result.ran =>
        /\ \A g \in Callables : \A r \in AllReferences(g) :
              (IsContainerCallReference(r) /\ r.container_id \in Callables)
              => g \in GetSet(container_result.caller_to_callees, r.container_id)
        /\ \A e \in ContainerEdges :
              /\ e[1] \in Callables
              /\ e[2] \in Callables
              /\ \E r \in AllReferences(e[2]) :
                    IsContainerCallReference(r) /\ r.container_id = e[1]

\* The container strategy ran on a table with a call reference contained in
\* a callable (kept) and one contained in a variable (dropped).
C8_Witness ==
    /\ container_result.ran
    /\ \E g \in Callables : \E r \in AllReferences(g) :
          IsContainerCallReference(r) /\ r.container_id \in Callables
    /\ \E g \in Callables : \E r \in AllReferences(g) :
          IsContainerCallReference(r) /\ r.container_id = "v"
    /\ ContainerEdges # {}

IsInverse(result) ==
    /\ \A a \in DOMAIN result.caller_to_callees :
          \A b \in result.caller_to_callees[a] :
              b \in DOMAIN result.callee_to_callers /\ a \in result.callee_to_callers[b]
    /\ \A b \in DOMAIN result.callee_to_callers :
          \A a \in result.callee_to_callers[b] :
              a \in DOMAIN result.caller_to_callees /\ b \in result.caller_to_callees[a]

\* C25: when the reverse index is requested, in both strategies b is in
\* caller_to_callees[a] exactly when a is in callee_to_callers[b], self-calls
\* included.
C25_ReverseIsInverse ==
    /\ (container_result.ran /\ container_result.generate_bidirectional)
            => IsInverse(container_result)
    /\ (spatial_result.ran /\ spatial_result.generate_bidirectional)
            => IsInverse(spatial_result)

\* Both strategies ran with the reverse index and each found a self-call and
\* a call between two functions.
C25_Witness ==
    /\ container_result.ran /\ container_result.generate_bidirectional
    /\ spatial_result.ran /\ spatial_result.generate_bidirectional
    /\ \E p, q \in ContainerEdges : p[1] = p[2] /\ q[1] # q[2]
    /\ \E p, q \in SpatialEdges : p[1] = p[2] /\ q[1] # q[2]

(***************************************************************************)
(* Span/symbol reconciler (source_span_provider.py)                        *)
(*                                                                         *)
(* The span table maps a file to its spans in the insertion order of the   *)
(* per-file dict, keyed by make_symbol_key of the span's name and of the   *)
(* start of its name location; a file without spans has no entry.          *)
(***************************************************************************)
SourceSpan(n, k, l, name_loc, body_loc, i, par) ==
    [name |-> n, kind |-> k, lang |-> l, name_location |-> name_loc,
     body_location |-> body_loc, id |-> i, parent_id |-> par]

TypeAliasSpan(i, n, f, l, name_loc, body_loc, sc, par, aliased) ==
    [id |-> i, name |-> n, file_uri |-> f, lang |-> l, name_location |-> name_loc,
     body_location |-> body_loc, scope |-> sc, parent_id |-> par,
     aliased_type_id |-> aliased]

\* f"{name}::{file_uri}:{line}:{col}"
make_symbol_key(name, file_uri, line, col) ==
    name \o "::" \o file_uri \o ":" \o ToString(line) \o ":" \o ToString(col)

\* Variant: every key has the same id.
make_synthetic_idConstant(key) == "md5()"

\* hashlib.md5(key.encode()).hexdigest(): one id per key.
make_synthetic_id(key) == "md5(" \o key \o ")"

\* Variant: the key of a span also holds its language.
SpanKeyWithLanguage(span, file_uri) ==
    make_symbol_key(span.name, file_uri, span.name_location.start_line,
                    span.name_location.start_column) \o ":" \o span.lang

SpanKey(span, file_uri) ==
    make_symbol_key(span.name, file_uri, span.name_location.start_line,
                    span.name_location.start_column)

\* loc = sym.definition or sym.declaration
DefinitionOrDeclaration(sym) ==
    IF sym.definition # NoLocation THEN sym.definition ELSE sym.declaration

SymbolKey(sym) ==
    LET loc == DefinitionOrDeclaration(sym)
    IN make_symbol_key(sym.name, loc.file_uri, loc.start_line, loc.start_column)

\* file_span_data.get(file_uri, {})
SpansOfFile(spans, file_uri) ==
    IF file_uri \in DOMAIN spans THEN spans[file_uri] ELSE <<>>

\* span_tree.get(key): the spans of the file with that key (at most one).
SpansWithKey(spans, file_uri, key) ==
    SelectSeq(SpansOfFile(spans, file_uri), LAMBDA sp : SpanKey(sp, file_uri) = key)

\* self.synthetic_id_to_index_id.get(x, x)
RemapGet(remap, x) == IF x \in DOMAIN remap THEN remap[x] ELSE x

\* unquote(urlparse(file_uri).path).startswith(project_path), for the project
\* path /proj and the files of the model.
ProjectPath == "/proj"

ExternalFile == "file:///usr/include/e.h"

\* A file of the project that was not parsed.
OtherFile == "file:///proj/b.cpp"

\* The files of the model under ProjectPath.
ProjectFiles == {SrcFile, OtherFile, "file:///proj/a.c", "file:///proj/h.h"}

InProjectPath(file_uri) == file_uri \in ProjectFiles

\* sym.kind in ("Namespace"): a substring test on the string "Namespace";
\* of the kinds of the model, Namespace and the empty kind pass it.
KindInNamespaceString(kind) == kind \in {"Namespace", ""}

\* _filter_symbols_by_project_path: the ids that stay in the table.
KeptByProjectPath(syms) ==
    {i \in DOMAIN syms :
        LET loc == DefinitionOrDeclaration(syms[i]) IN
        /\ loc # NoLocation
        /\ InProjectPath(loc.file_uri) \/ KindInNamespaceString(syms[i].kind)}

_filter_symbols_by_project_path(syms) ==
    [i \in KeptByProjectPath(syms) |-> syms[i]]

\* ref.location == loc and ref.kind & 3 and not ref.kind & 4
\*     and ref.container_id != '0000000000000000'
IsContainerOfOwnDeclaration(ref, loc) ==
    /\ ref.location = loc
    /\ ref.kind % 4 # 0
    /\ (ref.kind \div 4) % 2 = 0
    /\ ref.container_id # Sentinel

\* The parent the reference-container step leaves on sym: the container of
\* the first such reference, if any.
ParentFromRefContainer(sym) ==
    LET loc == DefinitionOrDeclaration(sym)
        hits == SelectSeq(sym.references,
                    LAMBDA ref : IsContainerOfOwnDeclaration(ref, loc))
    IN IF loc = NoLocation \/ hits = <<>> THEN sym.parent_id
       ELSE hits[1].container_id

_assign_parent_ids_from_symbol_ref_container(syms) ==
    [i \in DOMAIN syms |-> [syms[i] EXCEPT !.parent_id = ParentFromRefContainer(syms[i])]]

\* Pass 1 of _match_and_enrich_with_source_spans, over the symbols in dict
\* order: a symbol whose key has a span takes its body, the span id is
\* remapped to the symbol id and the span leaves the copy of the table.
RECURSIVE MatchSymbolsWithSpans(_, _, _, _)
MatchSymbolsWithSpans(ord, syms, file_span_data_copy, remap) ==
    IF ord = <<>>
    THEN [symbols |-> syms, file_span_data_copy |-> file_span_data_copy,
          synthetic_id_to_index_id |-> remap]
    ELSE LET sym_id == Head(ord)
             sym == syms[sym_id]
             loc == DefinitionOrDeclaration(sym)
             key == SymbolKey(sym)
             found == SpansWithKey(file_span_data_copy, loc.file_uri, key)
         IN IF loc = NoLocation \/ found = <<>>
            THEN MatchSymbolsWithSpans(Tail(ord), syms, file_span_data_copy, remap)
            ELSE MatchSymbolsWithSpans(Tail(ord),
                    [syms EXCEPT ![sym_id].body_location = found[1].body_location],
                    [file_span_data_copy EXCEPT ![loc.file_uri] =
                        SelectSeq(@, LAMBDA sp : SpanKey(sp, loc.file_uri) # key)],
                    DictPut(remap, found[1].id, sym_id))

_create_synthetic_symbol(span, file_uri, parent_id) ==
    LET loc == Location(file_uri, span.name_location.start_line,
                        span.name_location.start_column,
                        span.name_location.end_line,
                        span.name_location.end_column)
    IN Symbol(span.id, span.name, span.kind, loc, loc, <<>>, <<>>, span.lang,
              span.body_location, parent_id)

\* Pass 2, over the remaining spans of one file in dict order: each becomes
\* a synthetic symbol whose parent is the span's parent resolved through the
\* remap table as it stands, and the span id is then remapped to itself.
RECURSIVE SynthesizeFromSpans(_, _, _, _)
SynthesizeFromSpans(file_uri, key_spans, synthetic_symbols, remap) ==
    IF key_spans = <<>>
    THEN [synthetic_symbols |-> synthetic_symbols, synthetic_id_to_index_id |-> remap]
    ELSE LET source_span == Head(key_spans)
             parent_id == RemapGet(remap, source_span.parent_id)
         IN SynthesizeFromSpans(file_uri, Tail(key_spans),
                Append(synthetic_symbols,
                       _create_synthetic_symbol(source_span, file_uri, parent_id)),
                DictPut(remap, source_span.id, source_span.id))

RECURSIVE SynthesizeFromFiles(_, _, _, _)
SynthesizeFromFiles(files, file_span_data_copy, synthetic_symbols, remap) ==
    IF files = <<>>
    THEN [synthetic_symbols |-> synthetic_symbols, synthetic_id_to_index_id |-> remap]
    ELSE LET r == SynthesizeFromSpans(Head(files), file_span_data_copy[Head(files)],
                      synthetic_symbols, remap)
         IN SynthesizeFromFiles(Tail(files), file_span_data_copy,
                r.synthetic_symbols, r.synthetic_id_to_index_id)

\* dict.update(new): a new symbol replaces the one of the same id in place,
\* the others are appended in their order.  new is a sequence of symbols.
RECURSIVE DictUpdate(_, _, _)
DictUpdate(syms, order, new) ==
    IF new = <<>> THEN [symbols |-> syms, symbol_order |-> order]
    ELSE DictUpdate(DictPut(syms, Head(new).id, Head(new)),
                    IF Head(new).id \in DOMAIN syms THEN order
                    ELSE Append(order, Head(new).id),
                    Tail(new))

\* Variant: pass 1 ends at the first symbol that has no span.
_match_and_enrich_with_source_spansUntilMiss(syms, order, spans, remap) ==
    LET ord == OrderOf(syms, order)
        misses == {k \in 1..Len(ord) :
                     LET loc == DefinitionOrDeclaration(syms[ord[k]])
                     IN /\ loc # NoLocation
                        /\ SpansWithKey(spans, loc.file_uri, SymbolKey(syms[ord[k]])) = <<>>}
        before == IF misses = {} THEN ord
                  ELSE SubSeq(ord, 1, (CHOOSE k \in misses : \A j \in misses : k <= j) - 1)
        pass1 == MatchSymbolsWithSpans(before, syms, spans, remap)
        pass2 == SynthesizeFromFiles(SetToSeq(DOMAIN pass1.file_span_data_copy),
                     pass1.file_span_data_copy, <<>>, pass1.synthetic_id_to_index_id)
        updated == DictUpdate(pass1.symbols, ord, pass2.synthetic_symbols)
    IN [symbols |-> updated.symbols, symbol_order |-> updated.symbol_order,
        synthetic_id_to_index_id |-> pass2.synthetic_id_to_index_id]

_match_and_enrich_with_source_spans(syms, order, spans, remap) ==
    LET pass1 == MatchSymbolsWithSpans(OrderOf(syms, order), syms, spans, remap)
        pass2 == SynthesizeFromFiles(SetToSeq(DOMAIN pass1.file_span_data_copy),
                     pass1.file_span_data_copy, <<>>, pass1.synthetic_id_to_index_id)
        updated == DictUpdate(pass1.symbols, OrderOf(syms, order),
                              pass2.synthetic_symbols)
    IN [symbols |-> updated.symbols, symbol_order |-> updated.symbol_order,
        synthetic_id_to_index_id |-> pass2.synthetic_id_to_index_id]

\* Variant: a one-line outer span contains nothing, whatever the kind of
\* inner.
_span_is_withinAnyKind(inner, outer) ==
    LET s1 == inner.body_location
        e1 == outer.body_location
    IN IF s1 = e1 THEN FALSE
       ELSE IF e1.start_line = e1.end_line THEN FALSE
       ELSE /\ \/ s1.start_line > e1.start_line
               \/ (s1.start_line = e1.start_line /\ s1.start_column >= e1.start_column)
            /\ \/ s1.end_line < e1.end_line
               \/ (s1.end_line = e1.end_line /\ s1.end_column <= e1.end_column)

\* Variant: any span that starts and ends inside outer is within it.
_span_is_withinBoundsOnly(inner, outer) ==
    LET s1 == inner.body_location
        e1 == outer.body_location
    IN /\ \/ s1.start_line > e1.start_line
          \/ (s1.start_line = e1.start_line /\ s1.start_column >= e1.start_column)
       /\ \/ s1.end_line < e1.end_line
          \/ (s1.end_line = e1.end_line /\ s1.end_column <= e1.end_column)

\* _span_is_within: identical spans and, for an inner span that is not a
\* bare name, one-line outer spans are excluded; then the bounds, inclusive.
_span_is_within(inner, outer) ==
    LET s1 == inner.body_location
        e1 == outer.body_location
    IN IF s1 = e1 THEN FALSE
       ELSE IF inner.kind # "Variable" /\ e1.start_line = e1.end_line THEN FALSE
       ELSE /\ \/ s1.start_line > e1.start_line
               \/ (s1.start_line = e1.start_line /\ s1.start_column >= e1.start_column)
            /\ \/ s1.end_line < e1.end_line
               \/ (s1.end_line = e1.end_line /\ s1.end_column <= e1.end_column)

\* min(candidates, key=end_line - start_line): the first of the smallest.
RECURSIVE MinByLines(_, _)
MinByLines(best, rest) ==
    IF rest = <<>> THEN best
    ELSE IF Head(rest).body_location.end_line - Head(rest).body_location.start_line
            < best.body_location.end_line - best.body_location.start_line
         THEN MinByLines(Head(rest), Tail(rest))
         ELSE MinByLines(best, Tail(rest))

\* Returns <<>> for None, <<container>> otherwise.
_find_innermost_container(span_tree, span) ==
    LET candidates == SelectSeq(span_tree, LAMBDA node : _span_is_within(span, node))
    IN IF candidates = <<>> THEN <<>>
       ELSE <<MinByLines(Head(candidates), Tail(candidates))>>

VariableKinds == {"Field", "Variable", "EnumConstant", "StaticProperty"}

BodylessFunctionKinds ==
    {"Constructor", "Destructor", "InstanceMethod", "ConversionFunction"}

\* Variant: no `if parent_id == sym.id: continue`.
ParentFromLexicalScopeNoSelfCheck(sym, spans, remap) ==
    LET loc == DefinitionOrDeclaration(sym)
        field_name == RelativeLocation(loc.start_line, loc.start_column,
                                       loc.end_line, loc.end_column)
        field_span == SourceSpan(sym.name, "Variable", sym.language, field_name,
                                 field_name, "", "")
        span_tree == SpansOfFile(spans, loc.file_uri)
        container == _find_innermost_container(span_tree, field_span)
        span == SpansWithKey(spans, loc.file_uri, SymbolKey(sym))
        by_name == \/ sym.kind \in VariableKinds
                   \/ (sym.kind \in BodylessFunctionKinds /\ sym.body_location = NoBody)
        parent_synth_id ==
            IF by_name THEN (IF container # <<>> THEN container[1].id ELSE None)
            ELSE span[1].parent_id
    IN IF Truthy(sym.parent_id) THEN sym.parent_id
       ELSE IF loc = NoLocation \/ ~InProjectPath(loc.file_uri) THEN sym.parent_id
       ELSE IF /\ ~by_name
               /\ \/ sym.kind = "TypeAlias"
                  \/ (sym.kind = "Function" /\ sym.definition = NoLocation)
                  \/ span_tree = <<>>
                  \/ span = <<>>
                  \/ ~Truthy(span[1].parent_id)
            THEN sym.parent_id
       ELSE RemapGet(remap, parent_synth_id)

\* The parent one iteration of _assign_parent_ids_lexically leaves on sym.
ParentFromLexicalScope(sym, spans, remap) ==
    LET loc == DefinitionOrDeclaration(sym)
        field_name == RelativeLocation(loc.start_line, loc.start_column,
                                       loc.end_line, loc.end_column)
        field_span == SourceSpan(sym.name, "Variable", sym.language, field_name,
                                 field_name, "", "")
        span_tree == SpansOfFile(spans, loc.file_uri)
        container == _find_innermost_container(span_tree, field_span)
        span == SpansWithKey(spans, loc.file_uri, SymbolKey(sym))
        by_name == \/ sym.kind \in VariableKinds
                   \/ (sym.kind \in BodylessFunctionKinds /\ sym.body_location = NoBody)
        parent_synth_id ==
            IF by_name THEN (IF container # <<>> THEN container[1].id ELSE None)
            ELSE span[1].parent_id
        parent_id == RemapGet(remap, parent_synth_id)
    IN IF Truthy(sym.parent_id) THEN sym.parent_id
       ELSE IF loc = NoLocation \/ ~InProjectPath(loc.file_uri) THEN sym.parent_id
       ELSE IF /\ ~by_name
               /\ \/ sym.kind = "TypeAlias"
                  \/ (sym.kind = "Function" /\ sym.definition = NoLocation)
                  \/ span_tree = <<>>
                  \/ span = <<>>
                  \/ ~Truthy(span[1].parent_id)
            THEN sym.parent_id
       ELSE IF parent_id = sym.id THEN sym.parent_id
       ELSE parent_id

\* Variant: no `if sym.parent_id: continue`; a lexical parent replaces the
\* parent the symbol has.
_assign_parent_ids_lexicallyOverwriting(syms, spans, remap) ==
    [i \in DOMAIN syms |->
        LET found == ParentFromLexicalScope([syms[i] EXCEPT !.parent_id = None],
                                            spans, remap)
        IN [syms[i] EXCEPT !.parent_id = IF Truthy(found) THEN found ELSE @]]

\* _assign_parent_ids_lexically: one iteration per symbol of the table.
_assign_parent_ids_lexically(syms, spans, remap) ==
    [i \in DOMAIN syms |->
        [syms[i] EXCEPT !.parent_id = ParentFromLexicalScope(syms[i], spans, remap)]]

\* First pass of _enrich_with_type_alias_data, over the symbols in dict
\* order; unmatched is the copy of the alias table, keyed by the alias id.
\* (sym.scope is never None in a parsed table, so the scope stays.)
RECURSIVE MatchTypeAliases(_, _, _, _)
MatchTypeAliases(ord, syms, unmatched, remap) ==
    IF ord = <<>>
    THEN [symbols |-> syms, unmatched_type_alias_spans |-> unmatched,
          synthetic_id_to_index_id |-> remap]
    ELSE LET sym_id == Head(ord)
             sym == syms[sym_id]
             matched == SelectSeq(unmatched, LAMBDA tas : tas.id = sym_id)
             matched_tas == matched[1]
         IN IF sym.kind # "TypeAlias" \/ matched = <<>>
            THEN MatchTypeAliases(Tail(ord), syms, unmatched, remap)
            ELSE MatchTypeAliases(Tail(ord),
                    [syms EXCEPT
                        ![sym_id].body_location = matched_tas.body_location,
                        ![sym_id].parent_id =
                            IF sym.parent_id = None /\ Truthy(matched_tas.parent_id)
                            THEN RemapGet(remap, matched_tas.parent_id)
                            ELSE @],
                    SelectSeq(unmatched, LAMBDA tas : tas.id # sym_id),
                    DictPut(remap, matched_tas.id, sym_id))

_create_synthetic_type_alias_symbol(tas, remap) ==
    LET loc == Location(tas.file_uri, tas.name_location.start_line,
                        tas.name_location.start_column,
                        tas.name_location.end_line, tas.name_location.end_column)
    IN Symbol(tas.id, tas.name, "TypeAlias", loc, loc, <<>>, tas.scope, tas.lang,
              tas.body_location, RemapGet(remap, tas.parent_id))

\* Second pass: a synthetic TypeAlias symbol per unmatched alias span.
RECURSIVE SynthesizeTypeAliases(_, _, _)
SynthesizeTypeAliases(unmatched, synthetic, remap) ==
    IF unmatched = <<>>
    THEN [synthetic_type_alias_symbols |-> synthetic, synthetic_id_to_index_id |-> remap]
    ELSE SynthesizeTypeAliases(Tail(unmatched),
            Append(synthetic, _create_synthetic_type_alias_symbol(Head(unmatched), remap)),
            DictPut(remap, Head(unmatched).id, Head(unmatched).id))

_enrich_with_type_alias_data(syms, order, aliases, remap) ==
    IF aliases = <<>>
    THEN [symbols |-> syms, symbol_order |-> OrderOf(syms, order),
          synthetic_id_to_index_id |-> remap]
    ELSE LET pass1 == MatchTypeAliases(OrderOf(syms, order), syms, aliases, remap)
             pass2 == SynthesizeTypeAliases(pass1.unmatched_type_alias_spans, <<>>,
                                            pass1.synthetic_id_to_index_id)
             updated == DictUpdate(pass1.symbols, OrderOf(syms, order),
                                   pass2.synthetic_type_alias_symbols)
         IN [symbols |-> updated.symbols, symbol_order |-> updated.symbol_order,
             synthetic_id_to_index_id |-> pass2.synthetic_id_to_index_id]

\* enrich_symbols_with_span: the six steps in their order, from the table of
\* the index parser, the span table, the alias table and the static calls.
enrich_symbols_with_span(syms, order, spans, aliases, static_calls) ==
    LET filtered == _filter_symbols_by_project_path(syms)
        by_ref == _assign_parent_ids_from_symbol_ref_container(filtered)
        matched == _match_and_enrich_with_source_spans(by_ref,
                       OrderOf(filtered, order), spans, <<>>)
        lexical == _assign_parent_ids_lexically(matched.symbols, spans,
                       matched.synthetic_id_to_index_id)
        aliased == _enrich_with_type_alias_data(lexical, matched.symbol_order,
                       aliases, matched.synthetic_id_to_index_id)
    IN _enrich_with_static_calls(aliased.symbols, static_calls)

(***************************************************************************)
(* Inputs of the reconciler.  One project file:                            *)
(*    1  namespace N {                                                     *)
(*    2    struct K {                                                      *)
(*    3      int fld;                                                      *)
(*    4      union {            (anonymous, not in the index)              *)
(*    6      } u;                                                          *)
(*    7      void m() {                                                    *)
(*    9      }                                                             *)
(*   10      typedef int T;                                                *)
(*   11      using U = int;     (not in the index)                         *)
(*   12    };                                                              *)
(*   14    int v = ...;                                                    *)
(*   20  }                                                                 *)
(* with the index symbols N, K, fld, m, T, v, the spans of N, K, the       *)
(* union and m, and the alias spans of T and U; varied by at most          *)
(* MaxEnrichFacts facts.                                                   *)
(***************************************************************************)
MaxEnrichFacts == 2

EnrichIds == {"N", "K", "fld", "m", "T", "v"}

EnrichOrder == <<"N", "K", "fld", "m", "m2", "T", "v">>

\* m2 is a second method of the name m, declared through the same macro
\* argument as m: same name, same name location, another id.
EnrichName(i) == IF i = "m2" THEN "m" ELSE i

EnrichKind(i) ==
    CASE i = "N" -> "Namespace"
      [] i = "K" -> "Struct"
      [] i = "fld" -> "Field"
      [] i \in {"m", "m2"} -> "InstanceMethod"
      [] i = "T" -> "TypeAlias"
      [] OTHER -> "Variable"

\* Where the name of a symbol is.
EnrichNameLocation(i) ==
    CASE i = "N" -> RelativeLocation(1, 10, 1, 11)
      [] i = "K" -> RelativeLocation(2, 9, 2, 10)
      [] i = "fld" -> RelativeLocation(3, 8, 3, 11)
      [] i \in {"m", "m2"} -> RelativeLocation(7, 9, 7, 10)
      [] i = "T" -> RelativeLocation(10, 16, 10, 17)
      [] i = "U" -> RelativeLocation(11, 10, 11, 11)
      [] i = "v" -> RelativeLocation(14, 6, 14, 7)
      [] OTHER -> RelativeLocation(4, 4, 4, 4)

SpanBody(n) ==
    CASE n = "N" -> RelativeLocation(1, 0, 20, 1)
      [] n = "K" -> RelativeLocation(2, 2, 12, 3)
      [] n = "m" -> RelativeLocation(7, 4, 9, 5)
      [] n = "v" -> RelativeLocation(14, 2, 16, 3)
      [] OTHER -> RelativeLocation(4, 4, 6, 5)

SpanKind(n) ==
    CASE n = "N" -> "NAMESPACE"
      [] n = "K" -> "STRUCT_DECL"
      [] n = "m" -> "CXX_METHOD"
      [] n = "v" -> "FUNCTION_DECL"
      [] OTHER -> "UNION_DECL"

\* The semantic parent of the node of a span.
SpanSemanticParent(n) ==
    CASE n = "N" -> None
      [] n = "K" -> "N"
      [] n = "v" -> "N"
      [] OTHER -> "K"

SpanIdOf(n) ==
    make_synthetic_id(make_symbol_key(n, SrcFile, EnrichNameLocation(n).start_line,
                                      EnrichNameLocation(n).start_column))

EnrichFact(t, a, b, k) == [t |-> t, a |-> a, b |-> b, k |-> k]

EnrichFacts ==
    \* a definition/declaration reference of a, at a's own location
    {EnrichFact("ref", a, b, 2) :
        a \in {"K", "m", "fld"}, b \in {"N", "K", "m", Sentinel, None, AbsentId}}
    \* a plain reference at a's own location, and a definition reference elsewhere
    \cup {EnrichFact("ref", "K", "N", 12), EnrichFact("ref_elsewhere", "K", "N", 2)}
    \* the parser saw no span for a
    \cup {EnrichFact("nospan", a, None, 0) : a \in {"N", "K", "m", ""}}
    \* the parser resolved no parent for the span a
    \cup {EnrichFact("noparent", a, None, 0) : a \in {"K", "m", ""}}
    \* the parser saw a body at the name of the variable v
    \cup {EnrichFact("span", "v", None, 0)}
    \* a is defined in a file of the project that was not parsed
    \cup {EnrichFact("elsewhere", "K", None, 0)}
    \* the index has a second symbol of the name and the location of a
    \cup {EnrichFact("overload", "m", None, 0)}
    \* a is not in the index
    \cup {EnrichFact("unindexed", a, None, 0) : a \in {"K", "m"}}
    \* a is defined outside the project path
    \cup {EnrichFact("external", a, None, 0) : a \in {"N", "K"}}
    \* the braces of the namespace open on the first line of K and close on
    \* its last line
    \cup {EnrichFact("same_lines", "N", None, 0)}
    \* no alias span for a, or one without a parent
    \cup {EnrichFact(t, a, None, 0) : t \in {"noalias", "alias_noparent"}, a \in {"T", "U"}}

EnrichInputs == UpTo(EnrichFacts, MaxEnrichFacts)

Has(F, t, a) == \E x \in F : x.t = t /\ x.a = a

EnrichLocation(F, i) ==
    LET n == EnrichNameLocation(i)
    IN Location(IF Has(F, "external", i) THEN ExternalFile
                ELSE IF Has(F, "elsewhere", i) THEN OtherFile
                ELSE SrcFile,
                n.start_line, n.start_column, n.end_line, n.end_column)

EnrichReferences(F, i) ==
    SetToSeq({Reference(x.k,
                  IF x.t = "ref" THEN EnrichLocation(F, i)
                  ELSE Location(SrcFile, 18, 2, 18, 3),
                  x.b) :
              x \in {y \in F : y.t \in {"ref", "ref_elsewhere"} /\ y.a = i}})

EnrichSymbols(F) ==
    [i \in {j \in EnrichIds : ~Has(F, "unindexed", j)}
            \cup {j \in {"m2"} : Has(F, "overload", "m")} |->
        Symbol(i, EnrichName(i), EnrichKind(i), EnrichLocation(F, i),
               EnrichLocation(F, i), EnrichReferences(F, i), <<>>, Language,
               NoBody, None)]

SpanNames(F) ==
    SelectSeq(<<"N", "K", "", "m", "v">>,
        LAMBDA n : IF n = "v" THEN Has(F, "span", "v") ELSE ~Has(F, "nospan", n))

\* _get_parent_id: the id of the span of the semantic parent, when the parser
\* has one.
EnrichSpan(F, n) ==
    LET parent == SpanSemanticParent(n)
    IN SourceSpan(n, SpanKind(n), Language,
           EnrichNameLocation(n),
           IF Has(F, "same_lines", n) THEN RelativeLocation(2, 0, 12, 5)
           ELSE SpanBody(n),
           SpanIdOf(n),
           IF parent = None \/ Has(F, "nospan", parent) \/ Has(F, "noparent", n)
           THEN None ELSE SpanIdOf(parent))

EnrichSpans(F) ==
    LET names == SpanNames(F)
    IN IF names = <<>> THEN <<>>
       ELSE [f \in {SrcFile} |-> [k \in 1..Len(names) |-> EnrichSpan(F, names[k])]]

EnrichTypeAliasSpans(F) ==
    LET ids == SelectSeq(<<"T", "U">>, LAMBDA a : ~Has(F, "noalias", a))
    IN [k \in 1..Len(ids) |->
           TypeAliasSpan(ids[k], ids[k], SrcFile, Language,
               EnrichNameLocation(ids[k]),
               RelativeLocation(EnrichNameLocation(ids[k]).start_line, 4,
                                EnrichNameLocation(ids[k]).start_line, 17),
               <<"N", "K">>,
               IF Has(F, "alias_noparent", ids[k]) \/ Has(F, "nospan", "K")
               THEN None ELSE SpanIdOf("K"),
               None)]

\* The <<caller_usr, callee_usr>> pairs of the reconciler's input.
EnrichStaticCallInputs == {{}, {<<"m", "m">>}}

InitEnrich ==
    \E F \in EnrichInputs, static \in EnrichStaticCallInputs :
        /\ pc = "parsed"
        /\ UpdateIdle
        /\ symbols = EnrichSymbols(F)
        /\ index_symbols = EnrichSymbols(F)
        /\ symbol_order = OrderOf(EnrichSymbols(F), EnrichOrder)
        /\ inheritance_relations = <<>>
        /\ override_relations = <<>>
        /\ has_container_field = DetectContainerField(EnrichSymbols(F))
        /\ has_call_kind = DetectCallKind(EnrichSymbols(F))
        /\ source_spans = EnrichSpans(F)
        /\ type_alias_spans = EnrichTypeAliasSpans(F)
        /\ synthetic_id_to_index_id = <<>>
        /\ static_call_relations = static
        /\ container_result = NotRun
        /\ spatial_result = NotRun
        /\ ScopeIdle
        /\ ParseIdle
        /\ ForestIdle

\* enrich_symbols_with_span, step by step
FilterSymbolsByProjectPath ==
    /\ pc = "parsed"
    /\ symbols' = _filter_symbols_by_project_path(symbols)
    /\ symbol_order' = OrderOf(symbols', symbol_order)
    /\ pc' = "filtered"
    /\ UNCHANGED <<updateVars, index_symbols, inheritance_relations, override_relations,
                   has_container_field,
                   has_call_kind, scopeVars, spanVars, callVars, forestVars, parseVars>>

AssignParentIdsFromSymbolRefContainer ==
    /\ pc = "filtered"
    /\ symbols' = _assign_parent_ids_from_symbol_ref_container(symbols)
    /\ pc' = "ref_containers_assigned"
    /\ UNCHANGED <<updateVars, index_symbols, inheritance_relations, override_relations,
                   has_container_field,
                   has_call_kind, symbol_order, scopeVars, spanVars, callVars, forestVars, parseVars>>

MatchAndEnrichWithSourceSpans ==
    /\ pc = "ref_containers_assigned"
    /\ LET r == _match_and_enrich_with_source_spans(symbols, symbol_order,
                    source_spans, synthetic_id_to_index_id)
       IN /\ symbols' = r.symbols
          /\ symbol_order' = r.symbol_order
          /\ synthetic_id_to_index_id' = r.synthetic_id_to_index_id
    /\ pc' = "spans_matched"
    /\ UNCHANGED <<updateVars, index_symbols, inheritance_relations, override_relations,
                   has_container_field,
                   has_call_kind, scopeVars, source_spans, type_alias_spans, callVars, forestVars, parseVars>>

AssignParentIdsLexically ==
    /\ pc = "spans_matched"
    /\ symbols' = _assign_parent_ids_lexically(symbols, source_spans,
                        synthetic_id_to_index_id)
    /\ pc' = "lexical_parents_assigned"
    /\ UNCHANGED <<updateVars, index_symbols, inheritance_relations, override_relations,
                   has_container_field,
                   has_call_kind, symbol_order, scopeVars, spanVars, callVars, forestVars, parseVars>>

EnrichWithTypeAliasData ==
    /\ pc = "lexical_parents_assigned"
    /\ LET r == _enrich_with_type_alias_data(symbols, symbol_order,
                    type_alias_spans, synthetic_id_to_index_id)
       IN /\ symbols' = r.symbols
          /\ symbol_order' = r.symbol_order
          /\ synthetic_id_to_index_id' = r.synthetic_id_to_index_id
    /\ pc' = "type_aliases_enriched"
    /\ UNCHANGED <<updateVars, index_symbols, inheritance_relations, override_relations,
                   has_container_field,
                   has_call_kind, scopeVars, source_spans, type_alias_spans, callVars, forestVars, parseVars>>

NextEnrich ==
    \/ FilterSymbolsByProjectPath
    \/ AssignParentIdsFromSymbolRefContainer
    \/ MatchAndEnrichWithSourceSpans
    \/ AssignParentIdsLexically
    \/ EnrichWithTypeAliasData
    \/ EnrichWithStaticCalls

SpecEnrich == InitEnrich /\ [][NextEnrich]_vars

(***************************************************************************)
(* Properties of the reconciler                                            *)
(***************************************************************************)
Enriched == pc = "enriched" /\ ~container_result.ran /\ ~spatial_result.ran

\* C5: after enrich_symbols_with_span, no symbol's parent_id is its own id.
C5_NoSelfParent ==
    Enriched => \A i \in DOMAIN symbols : symbols[i].parent_id # i

\* Following parent_id from i, within the table, reaches an id of visited.
RECURSIVE RevisitsFrom(_, _)
RevisitsFrom(i, visited) ==
    LET parent_id == symbols[i].parent_id
    IN IF ~Truthy(parent_id) \/ parent_id \notin DOMAIN symbols THEN FALSE
       ELSE IF parent_id \in visited THEN TRUE
       ELSE RevisitsFrom(parent_id, visited \cup {parent_id})

\* C6: after enrich_symbols_with_span, following parent_id from any symbol
\* never revisits an id already visited.
C6_AcyclicParents ==
    Enriched => \A i \in DOMAIN symbols : ~RevisitsFrom(i, {i})

Reverse(seq) == [k \in 1..Len(seq) |-> seq[Len(seq) + 1 - k]]

\* The same index table with the references of every symbol in the opposite
\* iteration order.
ReferencesReversed(syms) ==
    [i \in DOMAIN syms |-> [syms[i] EXCEPT !.references = Reverse(@)]]

\* The same span table with the spans of every file in the opposite
\* iteration order.
SpansReversed(spans) == [f \in DOMAIN spans |-> Reverse(spans[f])]

\* What the reconciler is observed by: the ids of the table, and the body and
\* the parent of each.
BodiesAndParents(syms) ==
    [i \in DOMAIN syms |-> <<syms[i].body_location, syms[i].parent_id>>]

\* C11: the reconciler's result (the ids, and each symbol's body_location and
\* parent_id) is the one it gives on the same index table, span table, alias
\* table and static calls iterated in the opposite orders (symbols of the
\* table, references of a symbol, spans of a file).
C11_OrderIndependent ==
    Enriched =>
        BodiesAndParents(symbols) =
            BodiesAndParents(
                enrich_symbols_with_span(ReferencesReversed(index_symbols),
                    Reverse(OrderOf(index_symbols, symbol_order)),
                    SpansReversed(source_spans), type_alias_spans,
                    static_call_relations))

\* The index symbols the matching step sees whose name, file and start of
\* definition-or-declaration are those of the span.
IndexSymbolsOfSpan(span, file_uri) ==
    {i \in KeptByProjectPath(index_symbols) :
        SymbolKey(index_symbols[i]) = SpanKey(span, file_uri)}

\* The symbols the reconciler added to the table of the index.
AddedSymbols == DOMAIN symbols \ DOMAIN index_symbols

IsSyntheticSymbolOf(sym, span, file_uri) ==
    /\ sym.id = span.id
    /\ sym.name = span.name
    /\ sym.kind = span.kind
    /\ sym.language = span.lang
    /\ sym.definition = Location(file_uri, span.name_location.start_line,
                                 span.name_location.start_column,
                                 span.name_location.end_line,
                                 span.name_location.end_column)
    /\ sym.body_location = span.body_location

\* C12: after _match_and_enrich_with_source_spans, for every span of the span
\* table: every index symbol of the span's name, file and name start carries
\* the span's body_location and no synthetic symbol has the span's id; when
\* there is no such index symbol, exactly one added symbol has the span's id
\* and it has the span's name, kind, language, name location and
\* body_location.  Every added symbol has the id of a span of the table.
C12_SpansMatchedOrSynthesized ==
    pc = "spans_matched" =>
        /\ \A file_uri \in DOMAIN source_spans :
            \A k \in 1..Len(source_spans[file_uri]) :
                LET span == source_spans[file_uri][k]
                    matching == IndexSymbolsOfSpan(span, file_uri)
                IN IF matching # {}
                   THEN /\ span.id \notin AddedSymbols
                        /\ \A i \in matching :
                               symbols[i].body_location = span.body_location
                   ELSE /\ Cardinality({i \in AddedSymbols :
                                           symbols[i].id = span.id}) = 1
                        /\ span.id \in AddedSymbols
                        /\ IsSyntheticSymbolOf(symbols[span.id], span, file_uri)
        /\ \A i \in AddedSymbols :
               \E file_uri \in DOMAIN source_spans :
                   \E k \in 1..Len(source_spans[file_uri]) :
                       source_spans[file_uri][k].id = i

\* The index symbols the matching step sees for which the lookup misses: the
\* span table has no entry for the file, or the file has no span under the key.
LookupMisses ==
    {i \in KeptByProjectPath(index_symbols) :
        SpansWithKey(source_spans, DefinitionOrDeclaration(index_symbols[i]).file_uri,
                     SymbolKey(index_symbols[i])) = <<>>}

ContainerReferences(sym) ==
    {k \in 1..Len(sym.references) :
        LET ref == sym.references[k] IN
        /\ DefinitionOrDeclaration(sym) # NoLocation
        /\ ref.location = DefinitionOrDeclaration(sym)
        /\ (ref.kind % 2 = 1 \/ (ref.kind \div 2) % 2 = 1)
        /\ (ref.kind \div 4) % 2 = 0
        /\ Truthy(ref.container_id)
        /\ ref.container_id # Sentinel}

\* C20: after the reference-container step a symbol has a parent exactly when
\* it has such a reference, and the parent is the container_id of one of
\* them.
C20_ParentFromContainerReference ==
    pc = "ref_containers_assigned" =>
        \A i \in DOMAIN symbols :
            IF ContainerReferences(symbols[i]) = {}
            THEN ~Truthy(symbols[i].parent_id)
            ELSE \E k \in ContainerReferences(symbols[i]) :
                    symbols[i].parent_id = symbols[i].references[k].container_id

\* Resolver (2) for sym: the parent of the span of the symbol's name and
\* place, remapped; None when there is no such span, when the span has no
\* parent, or when the parent is the symbol itself.
BodySpanParent(sym) ==
    LET loc == DefinitionOrDeclaration(sym)
        span == IF loc = NoLocation THEN <<>>
                ELSE SpansWithKey(source_spans, loc.file_uri, SymbolKey(sym))
    IN IF span = <<>> THEN None
       ELSE IF ~Truthy(span[1].parent_id) THEN None
       ELSE IF RemapGet(synthetic_id_to_index_id, span[1].parent_id) = sym.id THEN None
       ELSE RemapGet(synthetic_id_to_index_id, span[1].parent_id)

\* Resolver (3) for sym: the container the containment query returns for the
\* span of the symbol's name, remapped; None when there is none or when it is
\* the symbol itself.
ContainmentParent(sym) ==
    LET loc == DefinitionOrDeclaration(sym)
        name == RelativeLocation(loc.start_line, loc.start_column,
                                 loc.end_line, loc.end_column)
        container ==
            IF loc = NoLocation THEN <<>>
            ELSE _find_innermost_container(SpansOfFile(source_spans, loc.file_uri),
                    SourceSpan(sym.name, "Variable", sym.language, name, name, "", ""))
    IN IF container = <<>> THEN None
       ELSE IF RemapGet(synthetic_id_to_index_id, container[1].id) = sym.id THEN None
       ELSE RemapGet(synthetic_id_to_index_id, container[1].id)

\* The symbols the lexical step sends to the containment query.
IsBodyless(sym) ==
    \/ sym.kind \in {"Field", "Variable", "EnumConstant", "StaticProperty"}
    \/ /\ sym.kind \in {"Constructor", "Destructor", "InstanceMethod",
                         "ConversionFunction"}
       /\ sym.body_location = NoBody

\* C21 as stated: in the lexical step a symbol that has a parent keeps it,
\* and a symbol that has none gets the parent of resolver (2) when that
\* succeeds, else the parent of resolver (3) when that succeeds, else none.
C21_FirstResolverInOrder ==
    [][AssignParentIdsLexically =>
        \A i \in DOMAIN symbols :
            symbols'[i].parent_id =
                IF Truthy(symbols[i].parent_id) THEN symbols[i].parent_id
                ELSE IF Truthy(BodySpanParent(symbols[i]))
                     THEN BodySpanParent(symbols[i])
                ELSE IF Truthy(ContainmentParent(symbols[i]))
                     THEN ContainmentParent(symbols[i])
                ELSE symbols[i].parent_id]_vars

\* C21: a parent that a symbol has is kept by every later step: the span
\* match leaves the parents of the table alone, the lexical step skips a
\* symbol with a parent and the alias step sets a parent only where there is
\* none.  A symbol of the project without parent is resolved by one resolver,
\* chosen by its kind: the containment query for a body-less symbol, the span
\* of its own name and place for any other but a TypeAlias and a Function
\* without definition, which get none; the other resolver is not tried.
C21_ResolverByKind ==
    [][/\ MatchAndEnrichWithSourceSpans =>
            \A i \in DOMAIN symbols : symbols'[i].parent_id = symbols[i].parent_id
       /\ AssignParentIdsLexically =>
            \A i \in DOMAIN symbols :
                LET sym == symbols[i]
                    loc == DefinitionOrDeclaration(sym)
                    found == IF IsBodyless(sym) THEN ContainmentParent(sym)
                             ELSE IF \/ sym.kind = "TypeAlias"
                                     \/ (sym.kind = "Function"
                                            /\ sym.definition = NoLocation)
                                  THEN None
                             ELSE BodySpanParent(sym)
                IN symbols'[i].parent_id =
                    IF Truthy(sym.parent_id) THEN sym.parent_id
                    ELSE IF loc = NoLocation \/ ~InProjectPath(loc.file_uri)
                         THEN sym.parent_id
                    ELSE IF Truthy(found) THEN found
                    ELSE sym.parent_id
       /\ EnrichWithTypeAliasData =>
            \A i \in DOMAIN symbols :
                Truthy(symbols[i].parent_id) =>
                    symbols'[i].parent_id = symbols[i].parent_id]_vars

\* After the lexical step: a symbol kept the container of its reference
\* although the span of its name has another parent, a symbol without such a
\* reference took the parent of its span, and a body-less symbol took the
\* container of its name.
C21_Witness ==
    /\ pc = "lexical_parents_assigned"
    /\ \E i \in DOMAIN symbols :
          /\ ContainerReferences(symbols[i]) # {}
          /\ Truthy(BodySpanParent(symbols[i]))
          /\ symbols[i].parent_id # BodySpanParent(symbols[i])
    /\ \E i \in DOMAIN symbols \cap DOMAIN index_symbols :
          /\ ~IsBodyless(symbols[i])
          /\ symbols[i].references = <<>>
          /\ Truthy(symbols[i].parent_id)
          /\ symbols[i].parent_id = BodySpanParent(symbols[i])
    /\ \E i \in DOMAIN symbols \cap DOMAIN index_symbols :
          /\ IsBodyless(symbols[i])
          /\ symbols[i].references = <<>>
          /\ Truthy(symbols[i].parent_id)
          /\ symbols[i].parent_id = ContainmentParent(symbols[i])

\* Body a lies in body b and is not b: b starts at or before the start of a
\* and ends at or after the end of a, by (line, column).
LiesIn(a, b) ==
    /\ a # b
    /\ \/ a.start_line > b.start_line
       \/ (a.start_line = b.start_line /\ a.start_column >= b.start_column)
    /\ \/ a.end_line < b.end_line
       \/ (a.end_line = b.end_line /\ a.end_column <= b.end_column)

\* The span of the name of a symbol, as the lexical step builds it.
NameSpan(sym) ==
    LET loc == DefinitionOrDeclaration(sym)
        name == RelativeLocation(loc.start_line, loc.start_column,
                                 loc.end_line, loc.end_column)
    IN SourceSpan(sym.name, "Variable", sym.language, name, name, "", "")

\* The body-less symbols of the project the lexical step queries.
QueriedSymbols ==
    {i \in DOMAIN symbols :
        /\ IsBodyless(symbols[i])
        /\ DefinitionOrDeclaration(symbols[i]) # NoLocation
        /\ InProjectPath(DefinitionOrDeclaration(symbols[i]).file_uri)}

\* C22: for a body-less symbol, the container the containment query returns
\* contains the name of the symbol and no other span of the file that
\* contains the name lies in it; the query returns none only when no span of
\* the file contains the name.
C22_InnermostContainer ==
    pc = "spans_matched" =>
        \A i \in QueriedSymbols :
            LET span_tree == SpansOfFile(source_spans,
                                DefinitionOrDeclaration(symbols[i]).file_uri)
                name == NameSpan(symbols[i]).body_location
                container == _find_innermost_container(span_tree, NameSpan(symbols[i]))
            IN IF container = <<>>
               THEN \A k \in 1..Len(span_tree) :
                        ~LiesIn(name, span_tree[k].body_location)
               ELSE /\ LiesIn(name, container[1].body_location)
                    /\ \A k \in 1..Len(span_tree) :
                          ~(/\ LiesIn(name, span_tree[k].body_location)
                            /\ LiesIn(span_tree[k].body_location,
                                      container[1].body_location))

\* The span the containment test of the forest is given for a reference: a
\* bare-name span at the place of the reference.
ReferenceSpan(ref) ==
    LET at == RelativeLocation(ref.location.start_line, ref.location.start_column,
                               ref.location.end_line, ref.location.end_column)
    IN [name |-> "", kind |-> "Variable", lang |-> Language, name_location |-> at,
        body_location |-> at, id |-> "", parent_id |-> ""]

\* The span of the body of the callable f.
BodySpanOf(f) ==
    [name |-> symbols[f].name, kind |-> "FUNCTION_DECL", lang |-> Language,
     name_location |-> NoBody, body_location |-> symbols[f].body_location,
     id |-> "", parent_id |-> ""]

\* The references and the bodies of the file the spatial scan compares.
ReferencesAndBodies ==
    {<<r, f>> \in (UNION {AllReferences(g) : g \in DOMAIN symbols}) \X DOMAIN symbols :
        /\ symbols[f].body_location # NoBody
        /\ symbols[f].definition # NoLocation
        /\ r.location.file_uri = symbols[f].definition.file_uri}

\* C24 as stated: for a reference and a body of one file, the test of the
\* spatial strategy answers as the containment test of the span forest does
\* for the span of the reference and the span of the body.
C24_SameTestAsWithin ==
    \A q \in ReferencesAndBodies :
        _is_location_within_function_body(q[1].location, symbols[q[2]].body_location,
                                          symbols[q[2]].definition.file_uri)
        <=> _span_is_within(ReferenceSpan(q[1]), BodySpanOf(q[2]))

\* C24: the test of the spatial strategy is the inclusive comparison of the
\* bounds alone: it answers as the containment test of the span forest does
\* for a bare-name span, one-line bodies included, except that a reference
\* with the coordinates of the body is in the body.
C24_InclusiveBounds ==
    \A q \in ReferencesAndBodies :
        _is_location_within_function_body(q[1].location, symbols[q[2]].body_location,
                                          symbols[q[2]].definition.file_uri)
        <=> \/ ReferenceSpan(q[1]).body_location = symbols[q[2]].body_location
            \/ _span_is_within(ReferenceSpan(q[1]), BodySpanOf(q[2]))

\* The spatial scan ran on a table with a reference in the one-line body of
\* lam, a reference with the coordinates of that body, and a reference
\* outside every body.
C24_Witness ==
    /\ spatial_result.ran
    /\ \E q \in ReferencesAndBodies :
          /\ symbols[q[2]].body_location.start_line = symbols[q[2]].body_location.end_line
          /\ _span_is_within(ReferenceSpan(q[1]), BodySpanOf(q[2]))
    /\ \E q \in ReferencesAndBodies :
          ReferenceSpan(q[1]).body_location = symbols[q[2]].body_location
    /\ \E r \in UNION {AllReferences(g) : g \in DOMAIN symbols} :
          \A f \in DOMAIN symbols : <<r, f>> \in ReferencesAndBodies =>
              ~_is_location_within_function_body(r.location, symbols[f].body_location,
                                                 symbols[f].definition.file_uri)

\* C28: after enrich_symbols_with_span, the parent_id of a symbol, when it
\* has one, is the id of a symbol of the table.
C28_ParentInTable ==
    Enriched =>
        \A i \in DOMAIN symbols :
            Truthy(symbols[i].parent_id) => symbols[i].parent_id \in DOMAIN symbols

\* The lexical step resolves the parent of sym, which has none, to sym
\* itself: through the containment query for a body-less symbol, through the
\* parent of the span of its name and place for another.
ResolvesToItself(sym) ==
    LET loc == DefinitionOrDeclaration(sym)
        name == RelativeLocation(loc.start_line, loc.start_column,
                                 loc.end_line, loc.end_column)
        container ==
            _find_innermost_container(SpansOfFile(source_spans, loc.file_uri),
                SourceSpan(sym.name, "Variable", sym.language, name, name, "", ""))
        span == SpansWithKey(source_spans, loc.file_uri, SymbolKey(sym))
    IN /\ ~Truthy(sym.parent_id)
       /\ loc # NoLocation
       /\ InProjectPath(loc.file_uri)
       /\ IF IsBodyless(sym)
          THEN /\ container # <<>>
               /\ RemapGet(synthetic_id_to_index_id, container[1].id) = sym.id
          ELSE /\ sym.kind # "TypeAlias"
               /\ ~(sym.kind = "Function" /\ sym.definition = NoLocation)
               /\ span # <<>>
               /\ Truthy(span[1].parent_id)
               /\ RemapGet(synthetic_id_to_index_id, span[1].parent_id) = sym.id

\* C27: when the lexical step resolves the parent of a symbol to the symbol
\* itself, the symbol is left without parent, the step completes over the
\* same table, and the symbols for which it finds another parent get it.
C27_SelfParentRejected ==
    [][AssignParentIdsLexically =>
        /\ pc' = "lexical_parents_assigned"
        /\ DOMAIN symbols' = DOMAIN symbols
        /\ \A i \in DOMAIN symbols :
              ResolvesToItself(symbols[i]) => symbols'[i].parent_id = None
        /\ \A i \in DOMAIN symbols :
              LET sym == symbols[i]
                  loc == DefinitionOrDeclaration(sym)
              IN (/\ ~Truthy(sym.parent_id)
                  /\ loc # NoLocation /\ InProjectPath(loc.file_uri)
                  /\ IsBodyless(sym)
                  /\ Truthy(ContainmentParent(sym)))
                    => symbols'[i].parent_id = ContainmentParent(sym)]_vars

\* The lexical step has run over a table with a variable whose name lies in
\* the body of a span of its own name and place: the variable has no parent,
\* and a field got the struct around it.
C27_Witness ==
    /\ pc = "lexical_parents_assigned"
    /\ \E i \in DOMAIN symbols :
          ResolvesToItself(symbols[i]) /\ symbols[i].parent_id = None
    /\ \E j \in DOMAIN symbols :
          /\ index_symbols[j].references = <<>>
          /\ IsBodyless(symbols[j])
          /\ Truthy(symbols[j].parent_id)
          /\ symbols[j].parent_id = ContainmentParent(symbols[j])

(***************************************************************************)
(* Span parser (compilation_parser.py): the worker processes, each with    *)
(* its _ClangWorkerImpl, and the merge of their results in _parallel_parse.*)
(* The merged spans then go through the reconciler.                        *)
(*                                                                         *)
(* Two translation units, /proj/a.c and /proj/b.cpp, include /proj/h.h:    *)
(*    1  struct S {             (or, from the same macro argument, also a  *)
(*    2    void g() {            function S; under other flags the struct  *)
(*    3    }                     closes one line later)                    *)
(*    5  };                                                                *)
(* and each defines a function t on its first lines.                       *)
(***************************************************************************)
MaxWorkers == 2

Workers == 1..MaxWorkers

HeaderFile == "/proj/h.h"

Entries == {"/proj/a.c", "/proj/b.cpp"}

\* CompilationParser.get_language, on the files of the model.
get_language(file_name) ==
    IF file_name \in {"/proj/b.cpp"} THEN "Cpp"
    ELSE IF file_name \in {"/proj/a.c"} THEN "C"
    ELSE "Unknown"

\* The semantic parent of a cursor, as far as _get_parent_id reads it.
Parent(spelling, file_name, name_line, name_col, kind) ==
    [spelling |-> spelling, file_name |-> file_name, name_line |-> name_line,
     name_col |-> name_col, kind |-> kind]

TranslationUnit == Parent("", "", 0, 0, "TRANSLATION_UNIT")

\* A cursor: spelling, file, start of the name, kind, extent, semantic parent.
Node(spelling, file_name, name_line, name_col, kind, extent, semantic_parent) ==
    [spelling |-> spelling, file_name |-> file_name, name_line |-> name_line,
     name_col |-> name_col, kind |-> kind, extent |-> extent,
     semantic_parent |-> semantic_parent]

StructS ==
    Node("S", HeaderFile, 1, 7, "STRUCT_DECL", RelativeLocation(1, 0, 5, 1),
         TranslationUnit)

\* The definitions a walk of the translation unit of entry can meet.
NodesOf(entry) ==
    {StructS,
     [StructS EXCEPT !.extent = RelativeLocation(1, 0, 6, 1)],
     [StructS EXCEPT !.kind = "FUNCTION_DECL"],
     Node("g", HeaderFile, 2, 7, "CXX_METHOD", RelativeLocation(2, 2, 3, 3),
          Parent("S", HeaderFile, 1, 7, "STRUCT_DECL")),
     Node("t", entry, 0, 5, "FUNCTION_DECL", RelativeLocation(0, 0, 2, 1),
          TranslationUnit)}

\* tu.get_includes(), within the project path.
IncludesOf(entry) == {<<entry, HeaderFile>>}

FileUri(file_name) == "file://" \o file_name

\* The key _process_generic_node computes for a node.
NodeKey(node) ==
    make_symbol_key(node.spelling, FileUri(node.file_name), node.name_line,
                    node.name_col)

\* _get_parent_id: the id of the recorded span of the semantic parent.
_get_parent_id(key_to_span, node) ==
    LET parent == node.semantic_parent
        parent_key == make_symbol_key(parent.spelling, FileUri(parent.file_name),
                                      parent.name_line, parent.name_col)
    IN IF parent.kind = "TRANSLATION_UNIT" THEN None
       ELSE IF parent_key \notin DOMAIN key_to_span THEN None
       ELSE key_to_span[parent_key].id

\* A compiler argument, split after the prefix the parser tests it for.
Arg(prefix, rest) == <<prefix, rest>>

Text(a) == a[1] \o a[2]

\* cmds[0].arguments without the compiler, for the entries of the model:
\* b.cpp is compiled with the macros of a.c, or with one more.
ArgumentsOf(entry) ==
    IF entry = "/proj/a.c"
    THEN {<<Arg("-D", "A"), Arg("-c", ""), Arg("", entry)>>}
    ELSE {<<Arg("-O", "2"), Arg("-D", "A"), Arg("-o", ""), Arg("", "b.o"),
            Arg("", entry)>>,
          <<Arg("-D", "B"), Arg("-D", "A"), Arg("", entry)>>}

\* _sanitize_args, from argument i on: output and dependency flags go, with
\* their value, and so does the source file.
RECURSIVE _sanitize_args(_, _, _)
_sanitize_args(args, file_path, i) ==
    IF i > Len(args) THEN <<>>
    ELSE LET a == Text(args[i]) IN
         IF a \in {"-c", "-o", "-MMD", "-MF", "-MT", "-MQ", "-fcolor-diagnostics",
                   "-fdiagnostics-color"}
         THEN _sanitize_args(args, file_path,
                             IF a \in {"-o", "-MF", "-MT", "-MQ"} THEN i + 2 ELSE i + 1)
         ELSE IF a = file_path THEN _sanitize_args(args, file_path, i + 1)
         ELSE <<args[i]>> \o _sanitize_args(args, file_path, i + 1)

\* The while loop of _get_tu_hash, from argument i on: the arguments that
\* set macros, the dialect or the header search path.
RECURSIVE RelevantArgs(_, _)
RelevantArgs(args, i) ==
    IF i > Len(args) THEN <<>>
    ELSE LET a == args[i] IN
         IF a[1] \in {"-D", "-U"} THEN <<Text(a)>> \o RelevantArgs(args, i + 1)
         ELSE IF a[1] \in {"-std=", "-x", "--target=", "-f"}
         THEN <<Text(a)>> \o RelevantArgs(args, i + 1)
         ELSE IF Text(a) \in {"-I", "-isystem", "-iquote", "-include"}
         THEN <<Text(a)>>
              \o (IF i + 1 <= Len(args) THEN <<Text(args[i + 1])>> ELSE <<>>)
              \o RelevantArgs(args, i + 2)
         ELSE IF a[1] \in {"-I", "-isystem", "-iquote"}
         THEN <<Text(a)>> \o RelevantArgs(args, i + 1)
         ELSE RelevantArgs(args, i + 1)

\* The relevant arguments of the model in the order of Python's sorted().
ArgumentOrder == <<"-DA", "-DB">>

\* sorted(relevant)
RECURSIVE Sorted(_, _)
Sorted(relevant, order) ==
    IF order = <<>> THEN <<>>
    ELSE SelectSeq(relevant, LAMBDA a : a = Head(order)) \o Sorted(relevant, Tail(order))

\* " ".join(relevant_sorted)
RECURSIVE Join(_)
Join(strings) ==
    IF strings = <<>> THEN ""
    ELSE IF Len(strings) = 1 THEN strings[1]
    ELSE strings[1] \o " " \o Join(Tail(strings))

\* _get_tu_hash: the md5 of the sorted relevant arguments.
_get_tu_hash(args) == "md5(" \o Join(Sorted(RelevantArgs(args, 1), ArgumentOrder)) \o ")"

\* The worker as _ClangWorkerImpl.__init__ leaves it.  Two fields are history:
\* walked, the (entry, TU hash, header) of every header node handed to
\* _process_generic_node, and met, the nodes the walk of the current
\* translation unit has met, in their order, the first of each key.
NewWorker ==
    [entry |-> None, lang |-> None, key_to_span |-> <<>>, span_results |-> <<>>,
     include_relations |-> {}, tu_hash |-> None, local_header_cache |-> {},
     processed_global_headers |-> {}, global_header_cache |-> <<>>,
     walked |-> {}, met |-> <<>>]

\* Variant: a header processed under any TU hash is skipped.
_should_process_nodeAnyHash(worker, file_name) ==
    ~ /\ file_name # worker.entry
      /\ file_name \in UNION {worker.global_header_cache[h] :
                                h \in DOMAIN worker.global_header_cache}

\* _should_process_node: a node of a header that the worker processed under
\* the TU hash of this run is skipped; a node of the main file never is.
_should_process_node(worker, file_name) ==
    ~ /\ file_name # worker.entry
      /\ file_name \in worker.processed_global_headers

\* The nodes met in this translation unit, with node when it is the first of
\* its key.
Met(worker, node) ==
    IF \E k \in 1..Len(worker.met) : NodeKey(worker.met[k]) = NodeKey(node)
    THEN worker.met
    ELSE Append(worker.met, node)

\* self._local_header_cache.add(file_name), for a header that is processed.
RecordHeader(worker, file_name) ==
    IF file_name # worker.entry
    THEN [worker EXCEPT
            !.local_header_cache = @ \cup {file_name},
            !.walked = @ \cup {<<worker.entry, worker.tu_hash, file_name>>}]
    ELSE worker

\* Variant: a second observation of a key replaces the recorded span.
_process_generic_nodeOverwriting(worker, node) ==
    LET file_uri == FileUri(node.file_name)
        draft == SourceSpan(node.spelling, node.kind, worker.lang,
                     RelativeLocation(node.name_line, node.name_col, node.name_line,
                                      node.name_col + Len(node.spelling)),
                     node.extent, "", None)
        node_key == SpanKey(draft, file_uri)
        span == [draft EXCEPT !.id = make_synthetic_id(node_key),
                              !.parent_id = _get_parent_id(worker.key_to_span, node)]
    IN [worker EXCEPT
            !.key_to_span = DictPut(@, node_key, span),
            !.span_results = DictPut(@, file_uri, GetSet(@, file_uri) \cup {span})]

\* _process_generic_node: a node whose key is recorded is dropped; otherwise
\* its span is recorded under the key and added to the spans of its file.
_process_generic_node(worker, node) ==
    LET file_uri == FileUri(node.file_name)
        draft == SourceSpan(node.spelling, node.kind, worker.lang,
                     RelativeLocation(node.name_line, node.name_col, node.name_line,
                                      node.name_col + Len(node.spelling)),
                     node.extent, "", None)
        node_key == SpanKey(draft, file_uri)
        span == [draft EXCEPT !.id = make_synthetic_id(node_key),
                              !.parent_id = _get_parent_id(worker.key_to_span, node)]
    IN IF node_key \in DOMAIN worker.key_to_span THEN worker
       ELSE [worker EXCEPT
                !.key_to_span = DictPut(@, node_key, span),
                !.span_results = DictPut(@, file_uri, GetSet(@, file_uri) \cup {span})]

\* Variant: the spans of a result replace those the file already has.
MergeSpansReplacing(spans, span_result) ==
    [file_uri \in DOMAIN spans \cup DOMAIN span_result |->
        IF file_uri \in DOMAIN span_result THEN span_result[file_uri]
        ELSE spans[file_uri]]

\* for file_uri, spans in span_result.items(): all_spans[file_uri].update(spans)
MergeSpans(spans, span_result) ==
    [file_uri \in DOMAIN spans \cup DOMAIN span_result |->
        GetSet(spans, file_uri) \cup GetSet(span_result, file_uri)]

\* if includes: all_includes.update(includes)
MergeIncludes(includes, result_includes) == includes \cup result_includes

\* The <<file, span>> pairs of a file -> set-of-spans table.
SpanPairs(spans) == UNION {{<<f, sp>> : sp \in spans[f]} : f \in DOMAIN spans}

\* The file -> (key -> span) tables the reconciler can be given for the merged
\* spans: per file, one span under each key.
SpanTables(spans) ==
    {[f \in DOMAIN spans |-> SetToSeq({q[2] : q \in {r \in P : r[1] = f}})] :
        P \in {Q \in SUBSET SpanPairs(spans) :
                 \A q \in SpanPairs(spans) :
                    Cardinality({r \in Q : r[1] = q[1]
                                   /\ SpanKey(r[2], r[1]) = SpanKey(q[2], q[1])}) = 1}}

\* The index: empty, or with the struct S of the header.
ParseIndexInputs ==
    {<<>>,
     [i \in {"S"} |->
        Symbol("S", "S", "Struct",
               Location(FileUri(HeaderFile), 1, 7, 1, 8),
               Location(FileUri(HeaderFile), 1, 7, 1, 8), <<>>, <<>>, Language,
               NoBody, None)]}

InitParse ==
    \E index \in ParseIndexInputs :
        /\ pc = "parsing"
        /\ UpdateIdle
        /\ workers = [w \in Workers |-> NewWorker]
        /\ pending = Entries
        /\ futures = {}
        /\ merged = {}
        /\ all_spans = <<>>
        /\ all_includes = {}
        /\ symbols = index
        /\ index_symbols = index
        /\ symbol_order = SetToSeq(DOMAIN index)
        /\ inheritance_relations = <<>>
        /\ override_relations = <<>>
        /\ has_container_field = FALSE
        /\ has_call_kind = FALSE
        /\ ScopeIdle
        /\ SpansIdle
        /\ CallsIdle
        /\ ForestIdle

\* executor.submit(_parallel_worker, item) reaches a free worker process:
\* run(entry) up to the walk of the translation unit.
StartRun(w) ==
    /\ pc = "parsing"
    /\ workers[w].entry = None
    /\ \E entry \in pending : \E arguments \in ArgumentsOf(entry) :
        LET _tu_hash == _get_tu_hash(_sanitize_args(arguments, entry, 1)) IN
        /\ workers' = [workers EXCEPT ![w] =
                [@ EXCEPT !.entry = entry, !.lang = get_language(entry),
                          !.span_results = <<>>,
                          !.include_relations = IncludesOf(entry),
                          !.tu_hash = _tu_hash,
                          !.met = <<>>,
                          !.local_header_cache = {},
                          !.processed_global_headers =
                                GetSet(workers[w].global_header_cache, _tu_hash)]]
        /\ pending' = pending \ {entry}
    /\ UNCHANGED <<updateVars, pc, parserVars, scopeVars, spanVars, callVars, forestVars,
                   futures, merged, all_spans, all_includes>>

\* _walk_ast meets a definition of a kind with a body span.
ProcessGenericNode(w) ==
    /\ pc = "parsing"
    /\ workers[w].entry # None
    /\ \E node \in NodesOf(workers[w].entry) :
        workers' = [workers EXCEPT ![w] =
            LET worker == [workers[w] EXCEPT !.met = Met(workers[w], node)] IN
            IF ~_should_process_node(worker, node.file_name) THEN worker
            ELSE _process_generic_node(RecordHeader(worker, node.file_name), node)]
    /\ UNCHANGED <<updateVars, pc, parserVars, scopeVars, spanVars, callVars, forestVars,
                   pending, futures, merged, all_spans, all_includes>>

\* run merges the headers of this translation unit into the cache of its TU
\* hash and returns self.span_results, self.include_relations.
FinishRun(w) ==
    /\ pc = "parsing"
    /\ workers[w].entry # None
    /\ futures' = futures \cup {[item |-> workers[w].entry,
                                 span_result |-> workers[w].span_results,
                                 includes |-> workers[w].include_relations,
                                 nodes |-> workers[w].met]}
    /\ workers' = [workers EXCEPT ![w] =
            [@ EXCEPT !.entry = None,
                      !.global_header_cache =
                            DictPut(@, workers[w].tu_hash,
                                    GetSet(@, workers[w].tu_hash)
                                        \cup workers[w].local_header_cache)]]
    /\ UNCHANGED <<updateVars, pc, parserVars, scopeVars, spanVars, callVars, forestVars,
                   pending, merged, all_spans, all_includes>>

\* One iteration of the as_completed loop of _parallel_parse.
MergeResult ==
    /\ pc = "parsing"
    /\ \E future \in futures \ merged :
        /\ all_includes' = MergeIncludes(all_includes, future.includes)
        /\ all_spans' = MergeSpans(all_spans, future.span_result)
        /\ merged' = merged \cup {future}
    /\ UNCHANGED <<updateVars, pc, parserVars, scopeVars, spanVars, callVars, forestVars,
                   workers, pending, futures>>

\* self.source_spans = all_spans, and the table the reconciler reads.
SetSourceSpans ==
    /\ pc = "parsing"
    /\ pending = {}
    /\ \A w \in Workers : workers[w].entry = None
    /\ merged = futures
    /\ \E table \in SpanTables(all_spans) : source_spans' = table
    /\ pc' = "parsed"
    /\ UNCHANGED <<updateVars, parserVars, scopeVars, type_alias_spans, synthetic_id_to_index_id,
                   callVars, forestVars, parseVars>>

NextParse ==
    \/ \E w \in Workers : StartRun(w)
    \/ \E w \in Workers : ProcessGenericNode(w)
    \/ \E w \in Workers : FinishRun(w)
    \/ MergeResult
    \/ SetSourceSpans
    \/ NextEnrich

SpecParse == InitParse /\ [][NextParse]_vars

(***************************************************************************)
(* Properties of the span parser                                           *)
(***************************************************************************)
\* The union, file by file, of the spans of a set of worker results.
UnionOfSpans(results) ==
    [file_uri \in UNION {DOMAIN r.span_result : r \in results} |->
        UNION {GetSet(r.span_result, file_uri) : r \in results}]

UnionOfIncludes(results) == UNION {r.includes : r \in results}

\* C13: whatever the order in which the results were merged, the merged
\* file -> spans table and include set are the unions of the merged results;
\* and merging again a result that was merged changes neither.
C13_MergeCommutativeIdempotent ==
    /\ all_spans = UnionOfSpans(merged)
    /\ all_includes = UnionOfIncludes(merged)
    /\ \A r \in merged :
        /\ MergeSpans(all_spans, r.span_result) = all_spans
        /\ MergeIncludes(all_includes, r.includes) = all_includes

\* Two results with different spans of the header have been merged.
C13_Witness ==
    \E r1, r2 \in merged :
        /\ r1.item # r2.item
        /\ FileUri(HeaderFile) \in DOMAIN r1.span_result \cap DOMAIN r2.span_result
        /\ r1.span_result[FileUri(HeaderFile)] # r2.span_result[FileUri(HeaderFile)]

\* The spans of the merged table, each with its file.
MergedSpans == SpanPairs(all_spans)

\* (name, file, kind, language, name_location, body_location) of a span.
SixFields(q) ==
    <<q[2].name, q[1], q[2].kind, q[2].lang, q[2].name_location, q[2].body_location>>

\* (name, file, start line and column of the name) of a span.
NameAndNameStart(q) ==
    <<q[2].name, q[1], q[2].name_location.start_line,
      q[2].name_location.start_column>>

\* C14 as stated: two spans have the same id exactly when they agree on name,
\* file, kind, language, name_location and body_location.
C14_IdOfSixFields ==
    \A q, r \in MergedSpans : (q[2].id = r[2].id) <=> (SixFields(q) = SixFields(r))

\* C14: the id of a span is the hash of the key made of its name, its file
\* and the start of its name, and two spans have the same id exactly when
\* they agree on these.
C14_IdOfNameAndNameStart ==
    /\ \A q \in MergedSpans : q[2].id = make_synthetic_id(SpanKey(q[2], q[1]))
    /\ \A q, r \in MergedSpans :
          (q[2].id = r[2].id) <=> (NameAndNameStart(q) = NameAndNameStart(r))

\* The merged table holds two spans of one id that differ in language, two
\* that differ in kind, two that differ in body, and spans of other ids.
C14_Witness ==
    /\ \E q, r \in MergedSpans : q[2].id = r[2].id /\ q[2].lang # r[2].lang
    /\ \E q, r \in MergedSpans : q[2].id = r[2].id /\ q[2].kind # r[2].kind
    /\ \E q, r \in MergedSpans :
          q[2].id = r[2].id /\ q[2].body_location # r[2].body_location
    /\ \E q, r \in MergedSpans : q[2].id # r[2].id

\* The nodes the walk of worker w's translation unit can hand to
\* _process_generic_node whose name and name location are those of a span
\* the worker has recorded.
SecondOccurrences(w) ==
    IF workers[w].entry = None THEN {}
    ELSE {node \in NodesOf(workers[w].entry) :
            NodeKey(node) \in DOMAIN workers[w].key_to_span}

\* C19: when a worker is handed a node with the name and name location of a
\* span it has recorded, _process_generic_node returns without recording
\* anything: the recorded span keeps its kind, language, body_location and
\* parent_id, and the spans of the run get no new member.
C19_SecondOccurrenceDropped ==
    \A w \in Workers : \A node \in SecondOccurrences(w) :
        LET after == _process_generic_node(workers[w], node) IN
        /\ DOMAIN after.key_to_span = DOMAIN workers[w].key_to_span
        /\ after.key_to_span[NodeKey(node)] = workers[w].key_to_span[NodeKey(node)]
        /\ after.span_results = workers[w].span_results
        /\ after = workers[w]

\* A worker that recorded the header's struct while parsing the C file meets
\* it again, in the C++ file, with another kind and with another extent.
C19_Witness ==
    \E w \in Workers :
        /\ workers[w].lang = "Cpp"
        /\ \E node \in SecondOccurrences(w) :
              workers[w].key_to_span[NodeKey(node)].lang = "C"
        /\ \E node \in SecondOccurrences(w) :
              workers[w].key_to_span[NodeKey(node)].kind # node.kind
        /\ \E node \in SecondOccurrences(w) :
              workers[w].key_to_span[NodeKey(node)].body_location # node.extent

\* What a worker process that has handled no translation unit returns for
\* entry when its walk meets nodes, from node i on.
RECURSIVE FreshWalk(_, _, _)
FreshWalk(worker, nodes, i) ==
    IF i > Len(nodes) THEN worker
    ELSE FreshWalk(_process_generic_node(worker, nodes[i]), nodes, i + 1)

AloneInItsWorker(future) ==
    [item |-> future.item,
     span_result |->
        FreshWalk([NewWorker EXCEPT !.entry = future.item,
                                    !.lang = get_language(future.item)],
                  future.nodes, 1).span_results,
     includes |-> future.includes,
     nodes |-> future.nodes]

\* C29: the merged span table is the one that results when every translation
\* unit is handled by a worker process of its own, whichever worker handled
\* which translation unit and in whatever order.
C29_TableIndependentOfScheduling ==
    pc # "parsing" =>
        all_spans = UnionOfSpans({AloneInItsWorker(future) : future \in merged})

\* The headers worker w processed in a translation unit before the one it
\* is walking, each with the TU hash it was processed under.
ProcessedEarlier(w) ==
    {<<h[2], h[3]>> : h \in {g \in workers[w].walked : g[1] # workers[w].entry}}

\* C26: while a worker walks a translation unit, a node is skipped only if
\* it lies in a header that this worker processed in an earlier translation
\* unit with the same TU hash; a header it processed only under other TU
\* hashes is processed again; a node of the main file is never skipped.
C26_HeaderCacheKeyedOnFileAndHash ==
    \A w \in Workers :
        workers[w].entry # None =>
            \A node \in NodesOf(workers[w].entry) :
                LET file_name == node.file_name
                    skipped == ~_should_process_node(workers[w], file_name)
                IN /\ skipped =>
                        /\ file_name # workers[w].entry
                        /\ <<workers[w].tu_hash, file_name>> \in ProcessedEarlier(w)
                   /\ (/\ \E h \in ProcessedEarlier(w) : h[2] = file_name
                       /\ <<workers[w].tu_hash, file_name>> \notin ProcessedEarlier(w))
                        => ~skipped
                   /\ file_name = workers[w].entry => ~skipped

\* A worker that processed the header in its first translation unit walks a
\* second one with the same TU hash: the nodes of the header are skipped and
\* the function of the main file has been recorded.
C26_Witness ==
    \E w \in Workers :
        /\ workers[w].entry = "/proj/b.cpp"
        /\ <<workers[w].tu_hash, HeaderFile>> \in ProcessedEarlier(w)
        /\ ~_should_process_node(workers[w], HeaderFile)
        /\ _should_process_node(workers[w], workers[w].entry)
        /\ FileUri(workers[w].entry) \in DOMAIN workers[w].span_results

\* The entries of the symbol table for the entity of an observation: the
\* symbols of its name whose definition or declaration starts where its name
\* starts.
EntriesOfEntity(q) ==
    {i \in DOMAIN symbols :
        LET loc == DefinitionOrDeclaration(symbols[i]) IN
        <<symbols[i].name, loc.file_uri, loc.start_line, loc.start_column>>
            = NameAndNameStart(q)}

\* Two observations of one (name, name location) under different languages.
SameEntityOtherLanguage(q, r) ==
    NameAndNameStart(q) = NameAndNameStart(r) /\ q[2].lang # r[2].lang

\* C18 as stated: when the merged spans hold two observations of one (name,
\* name location) under different language modes, the reconciled symbol table
\* holds an entry for each of them.
C18_BothObservationsKept ==
    pc = "enriched" =>
        \A q, r \in MergedSpans :
            SameEntityOtherLanguage(q, r) => Cardinality(EntriesOfEntity(q)) >= 2

\* C18: the observations of one (name, name location) are collapsed, whatever
\* their language modes: the reconciler adds no symbol for it when an index
\* symbol of the project has that name and location, and otherwise adds
\* exactly one, under the id of the key, with the kind, language and
\* body_location of one of the observations.
C18_OneEntryPerEntity ==
    pc = "enriched" =>
        \A q \in MergedSpans :
            LET added == EntriesOfEntity(q) \cap AddedSymbols IN
            IF EntriesOfEntity(q) \cap DOMAIN index_symbols # {}
            THEN added = {}
            ELSE /\ Cardinality(added) = 1
                 /\ \A i \in added :
                      \E r \in MergedSpans :
                          /\ NameAndNameStart(r) = NameAndNameStart(q)
                          /\ IsSyntheticSymbolOf(symbols[i], r[2], r[1])

\* The header's struct was observed under C and under C++, the index does not
\* have it, and the reconciliation is over.
C18_Witness ==
    /\ pc = "enriched"
    /\ \E q, r \in MergedSpans :
          /\ SameEntityOtherLanguage(q, r)
          /\ EntriesOfEntity(q) \cap AddedSymbols # {}

(***************************************************************************)
(* Span forest builder: the sort and the stack walk over the span set of   *)
(* one file.  The containment test is _span_is_within.                     *)
(***************************************************************************)
MaxSpans == 3

ForestLines == {0, 1}

ForestColumns == {0, 2, 4}

\* (line, column) a is before b.
PositionBefore(a, b) == a[1] < b[1] \/ (a[1] = b[1] /\ a[2] < b[2])

ForestBodies ==
    {RelativeLocation(a[1], a[2], b[1], b[2]) :
        <<a, b>> \in {q \in (ForestLines \X ForestColumns) \X (ForestLines \X ForestColumns) :
                        PositionBefore(q[1], q[2])}}

\* Spans of a body-carrying kind, and the bare-name spans built for fields
\* and variables.
ForestSpans ==
    {SourceSpan("", k, Language, NoBody, b, "", None) :
        k \in {"STRUCT_DECL", "Variable"}, b \in ForestBodies}

ForestInputs == UpTo(ForestSpans, MaxSpans)

BodyStart(span) == <<span.body_location.start_line, span.body_location.start_column>>

BodyEnd(span) == <<span.body_location.end_line, span.body_location.end_column>>

\* a is not after b in the order: start ascending, then end descending.
WalkOrderLeq(a, b) ==
    \/ PositionBefore(BodyStart(a), BodyStart(b))
    \/ /\ BodyStart(a) = BodyStart(b)
       /\ ~PositionBefore(BodyEnd(a), BodyEnd(b))

\* The orders a sort of the set can give: every arrangement of the set that
\* is ascending in the walk order (spans of equal key in any order).
SortedArrangements(spans) ==
    {seq \in [1..Cardinality(spans) -> spans] :
        /\ \A i, k \in DOMAIN seq : i # k => seq[i] # seq[k]
        /\ \A i, k \in DOMAIN seq : i < k => WalkOrderLeq(seq[i], seq[k])}

\* Pop while the top does not contain the current span.
RECURSIVE PopWhileNotContaining(_, _, _)
PopWhileNotContaining(sorted, stack, current) ==
    IF stack = <<>> THEN stack
    ELSE IF _span_is_within(current, sorted[stack[Len(stack)]]) THEN stack
    ELSE PopWhileNotContaining(sorted, SubSeq(stack, 1, Len(stack) - 1), current)

InitForest ==
    \E spans \in ForestInputs :
        /\ pc = "forest_input"
        /\ UpdateIdle
        /\ forest_input = spans
        /\ forest_sorted = <<>>
        /\ forest_stack = <<>>
        /\ forest_roots = <<>>
        /\ forest_children = <<>>
        /\ symbols = <<>>
        /\ index_symbols = <<>>
        /\ symbol_order = <<>>
        /\ inheritance_relations = <<>>
        /\ override_relations = <<>>
        /\ has_container_field = FALSE
        /\ has_call_kind = FALSE
        /\ ScopeIdle
        /\ ParseIdle
        /\ SpansIdle
        /\ CallsIdle

SortSpans ==
    /\ pc = "forest_input"
    /\ \E seq \in SortedArrangements(forest_input) : forest_sorted' = seq
    /\ pc' = "forest_walk"
    /\ UNCHANGED <<updateVars, parserVars, scopeVars, spanVars, callVars, forest_input,
                   forest_stack, forest_roots, forest_children, parseVars>>

\* One iteration of the walk: the next span in order is attached and pushed.
WalkSpan ==
    /\ pc = "forest_walk"
    /\ Cardinality(DOMAIN forest_children) < Len(forest_sorted)
    /\ LET node == Cardinality(DOMAIN forest_children) + 1
           open == PopWhileNotContaining(forest_sorted, forest_stack, forest_sorted[node])
       IN /\ forest_roots' = IF open = <<>> THEN Append(forest_roots, node)
                             ELSE forest_roots
          /\ forest_children' =
                [n \in DOMAIN forest_children \cup {node} |->
                    IF n = node THEN <<>>
                    ELSE IF open # <<>> /\ n = open[Len(open)]
                         THEN Append(forest_children[n], node)
                         ELSE forest_children[n]]
          /\ forest_stack' = Append(open, node)
    /\ UNCHANGED <<updateVars, pc, parserVars, scopeVars, spanVars, callVars, forest_input,
                   forest_sorted, parseVars>>

FinishForest ==
    /\ pc = "forest_walk"
    /\ Cardinality(DOMAIN forest_children) = Len(forest_sorted)
    /\ pc' = "forest_built"
    /\ UNCHANGED <<updateVars, parserVars, scopeVars, spanVars, callVars, forestVars, parseVars>>

NextForest == SortSpans \/ WalkSpan \/ FinishForest

SpecForest == InitForest /\ [][NextForest]_vars

(***************************************************************************)
(* Properties of the span forest                                           *)
(***************************************************************************)
\* The nodes whose parent is n.
ChildrenOf(n) == RangeOf(forest_children[n])

\* within(inner, outer), as the containment of two spans is defined: not
\* for identical coordinates, not in a one-line outer span unless inner is
\* a bare-name span, and otherwise when inner starts at or after the start
\* of outer and ends at or before its end.
Within(inner, outer) ==
    /\ inner.body_location # outer.body_location
    /\ inner.kind = "Variable"
          \/ outer.body_location.start_line # outer.body_location.end_line
    /\ ~PositionBefore(BodyStart(inner), BodyStart(outer))
    /\ ~PositionBefore(BodyEnd(outer), BodyEnd(inner))

\* C23: for all spans inner and outer, _span_is_within(inner, outer) is
\* within(inner, outer): false for identical coordinates, false for a
\* one-line outer unless inner is a bare-name (Variable) span, and otherwise
\* true exactly when inner starts at or after the start of outer and ends at
\* or before its end, by (line, column).
C23_SpanIsWithinAsSpecified ==
    \A inner, outer \in forest_input :
        _span_is_within(inner, outer) <=> Within(inner, outer)

\* The input holds a one-line span, a bare-name span in it, a span of a
\* body-carrying kind with the coordinates of that bare-name span, and the
\* walk is over.
C23_Witness ==
    /\ pc = "forest_built"
    /\ \E outer, name, inner \in forest_input :
          /\ outer.body_location.start_line = outer.body_location.end_line
          /\ name.kind = "Variable" /\ inner.kind # "Variable"
          /\ name.body_location = inner.body_location
          /\ _span_is_within(name, outer)
          /\ ~_span_is_within(inner, outer)
          /\ ~_span_is_within(name, inner)

\* C10: in the forest the walk builds, the span of every non-root node is
\* within the span of its parent node.
C10_ChildWithinParent ==
    \A n \in DOMAIN forest_children : \A c \in ChildrenOf(n) :
        Within(forest_sorted[c], forest_sorted[n])

\* A finished forest of three spans with a node two levels below a root.
C10_Witness ==
    /\ pc = "forest_built"
    /\ \E n \in DOMAIN forest_children : \E c \in ChildrenOf(n) :
          /\ n \notin RangeOf(forest_roots)
          /\ Within(forest_sorted[c], forest_sorted[n])

(***************************************************************************)
(* Incremental updater (clangd_graph_rag_updater.py): GraphUpdater.update, *)
(* phase by phase, against a graph whose PROJECT node stores the commit    *)
(* the graph was built from.  Every call into the graph, the index parser  *)
(* or the compilation manager can raise; update() catches nothing.         *)
(***************************************************************************)
componentVars ==
    <<parserVars, scopeVars, spanVars, callVars, forestVars, parseVars>>

\* git_manager.get_head_commit_hash()
HeadCommit == "c2"

StoredCommits == {None, "c1"}

OldCommitArgs == {None, "c0", "c1", "c2"}

NewCommitArgs == {None, "c1", "c2"}

AddedFiles == {"/proj/n.c"}

ModifiedFiles == {"/proj/h.h"}

DeletedFiles == {"/proj/d.c"}

\* include_provider.get_impacted_files_from_graph(headers_to_check)
ImpactedFiles == {"/proj/a.c"}

\* The changed files that end with one of ALL_HEADER_EXTENSIONS.
UpdateHeaders == {"/proj/h.h"}

NoChanges == [added |-> {}, modified |-> {}, deleted |-> {}]

InitUpdate ==
    \E stored \in StoredCommits, old \in OldCommitArgs, new \in NewCommitArgs,
       keep_orphans \in BOOLEAN, generate_summary \in BOOLEAN :
        /\ pc = "update"
        /\ commit_hash = stored
        /\ graph_writes = <<>>
        /\ updater = [args |-> [old_commit |-> old, new_commit |-> new,
                                keep_orphans |-> keep_orphans,
                                generate_summary |-> generate_summary],
                      old_commit |-> None, new_commit |-> None,
                      git_changes |-> NoChanges,
                      impacted_from_graph |-> {}, dirty_files |-> {},
                      mini_symbol_parser |-> None,
                      \* history: the stored commit when update() was called,
                      \* and the phases that have returned
                      stored |-> stored, completed |-> {}]
        /\ symbols = <<>>
        /\ index_symbols = <<>>
        /\ symbol_order = <<>>
        /\ inheritance_relations = <<>>
        /\ override_relations = <<>>
        /\ has_container_field = FALSE
        /\ has_call_kind = FALSE
        /\ ScopeIdle
        /\ SpansIdle
        /\ CallsIdle
        /\ ForestIdle
        /\ ParseIdle

\* An exception leaves update(): nothing after the raising call runs.
Raise ==
    /\ pc' = "update_raised"
    /\ UNCHANGED <<commit_hash, graph_writes, updater, componentVars>>

\* neo4j_mgr.update_project_node(project_path, {'commit_hash': new_commit})
update_project_node ==
    /\ commit_hash' = updater.new_commit
    /\ graph_writes' = Append(graph_writes, "update_project_node")

\* check_connection and verify_project_path: return 1, sys.exit(1), or go on.
Connect ==
    /\ pc = "update"
    /\ pc' \in {"update_returned", "update_exited", "connected"}
    /\ UNCHANGED <<commit_hash, graph_writes, updater, componentVars>>

\* _resolve_commit_range, and the return when the graph is up to date.
ResolveCommitRange ==
    /\ pc = "connected"
    /\ LET new_commit == IF Truthy(updater.args.new_commit)
                         THEN updater.args.new_commit ELSE HeadCommit
           old_commit == IF Truthy(updater.args.old_commit)
                         THEN updater.args.old_commit ELSE commit_hash
       IN /\ updater' = [updater EXCEPT !.old_commit = old_commit,
                                        !.new_commit = new_commit]
          /\ pc' = IF ~Truthy(old_commit) THEN "update_exited"
                   ELSE IF old_commit = new_commit THEN "update_returned"
                   ELSE "resolved"
    /\ UNCHANGED <<commit_hash, graph_writes, componentVars>>

\* Phases 1 and 2: the changed files of git and the files the graph says
\* include a modified or deleted header.
IdentifyChanges ==
    /\ pc = "resolved"
    /\ \/ Raise
       \/ \E added \in SUBSET AddedFiles, modified \in SUBSET ModifiedFiles,
             deleted \in SUBSET DeletedFiles, impacted \in SUBSET ImpactedFiles :
            /\ (modified \cup deleted) \cap UpdateHeaders = {} => impacted = {}
            /\ updater' = [updater EXCEPT
                    !.git_changes = [added |-> added, modified |-> modified,
                                     deleted |-> deleted],
                    !.impacted_from_graph = impacted,
                    !.dirty_files = added \cup modified \cup impacted]
            /\ pc' = "changes_identified"
            /\ UNCHANGED <<commit_hash, graph_writes, componentVars>>

\* Variant: `if not dirty_files:` alone.
NoRelevantChangesIgnoringDeleted ==
    /\ pc = "changes_identified"
    /\ updater.dirty_files = {}
    /\ \/ Raise
       \/ /\ update_project_node
          /\ pc' = "update_returned"
          /\ UNCHANGED <<updater, componentVars>>

\* if not dirty_files and not git_changes['deleted']: update the commit hash
\* and return.
NoRelevantChanges ==
    /\ pc = "changes_identified"
    /\ updater.dirty_files = {} /\ updater.git_changes.deleted = {}
    /\ \/ Raise
       \/ /\ update_project_node
          /\ pc' = "update_returned"
          /\ UNCHANGED <<updater, componentVars>>

\* Phase 3: the full index is parsed and the mini parser is built; None when
\* there are no dirty files.
BuildMiniParser ==
    /\ pc = "changes_identified"
    /\ ~(updater.dirty_files = {} /\ updater.git_changes.deleted = {})
    /\ \/ Raise
       \/ /\ updater' = [updater EXCEPT !.mini_symbol_parser =
                            IF updater.dirty_files = {} THEN None ELSE "SymbolParser"]
          /\ pc' = "miniparser_built"
          /\ UNCHANGED <<commit_hash, graph_writes, componentVars>>

\* A phase that sends the write operations ops to the graph: it returns after
\* all of them, or one of its calls raises after some.
RunPhase(ops, phase, next) ==
    \/ \E done \in 0..Len(ops) :
        /\ graph_writes' = graph_writes \o SubSeq(ops, 1, done)
        /\ pc' = "update_raised"
        /\ UNCHANGED <<commit_hash, updater, componentVars>>
    \/ /\ graph_writes' = graph_writes \o ops
       /\ updater' = [updater EXCEPT !.completed = @ \cup {phase}]
       /\ pc' = next
       /\ UNCHANGED <<commit_hash, componentVars>>

\* Phase 4, _purge_stale_graph_data.
PurgeStaleGraphData ==
    /\ pc = "miniparser_built"
    /\ RunPhase(<<"purge_symbols_defined_in_files",
                  "purge_symbols_declared_in_files",
                  "purge_include_relations_from_files">>
                    \o (IF updater.git_changes.deleted # {}
                        THEN <<"purge_files">> ELSE <<>>),
                "purge", "purged")

\* Phase 5, scope_builder.rebuild_mini_scope().
RebuildMiniScope ==
    /\ pc = "purged"
    /\ RunPhase(IF updater.mini_symbol_parser = None THEN <<>>
                ELSE <<"ingest_paths", "ingest_symbols_and_relationships",
                       "ingest_include_relations", "ingest_call_relations">>,
                "rebuild", "rebuilt")

\* Phase 6, _cleanup_graph.
CleanupGraph ==
    /\ pc = "rebuilt"
    /\ RunPhase(IF updater.args.keep_orphans THEN <<>>
                ELSE <<"cleanup_orphan_nodes">>,
                "cleanup", "cleaned")

\* Update the commit hash in the graph to the new state.
UpdateCommitHash ==
    /\ pc = "cleaned"
    /\ \/ Raise
       \/ /\ update_project_node
          /\ pc' = "commit_written"
          /\ UNCHANGED <<updater, componentVars>>

\* Phase 7, _regenerate_summary, and the end of update().
RegenerateSummary ==
    /\ pc = "commit_written"
    /\ IF updater.mini_symbol_parser # None /\ updater.args.generate_summary
       THEN RunPhase(<<"summarize_targeted_update">>, "summary", "update_returned")
       ELSE /\ pc' = "update_returned"
            /\ UNCHANGED <<commit_hash, graph_writes, updater, componentVars>>

NextUpdate ==
    \/ Connect
    \/ ResolveCommitRange
    \/ IdentifyChanges
    \/ NoRelevantChanges
    \/ BuildMiniParser
    \/ PurgeStaleGraphData
    \/ RebuildMiniScope
    \/ CleanupGraph
    \/ UpdateCommitHash
    \/ RegenerateSummary

SpecUpdate == InitUpdate /\ [][NextUpdate]_vars

(***************************************************************************)
(* Properties of the incremental updater                                   *)
(***************************************************************************)
\* The positions of the write of the commit hash in the log of the graph.
CommitWrites ==
    {k \in 1..Len(graph_writes) : graph_writes[k] = "update_project_node"}

\* The writes of the purge, of the rebuild and of the orphan cleanup.
StructuralWrites ==
    {"purge_symbols_defined_in_files", "purge_symbols_declared_in_files",
     "purge_include_relations_from_files", "purge_files", "ingest_paths",
     "ingest_symbols_and_relationships", "ingest_include_relations",
     "ingest_call_relations", "cleanup_orphan_nodes"}

\* C30: the stored commit_hash is the one the graph had until update() writes
\* new_commit; the write comes after the purge, the rebuild and the orphan
\* cleanup have returned, with no write of these phases after it, or it is
\* the only write when there are neither dirty nor deleted files; when
\* old_commit equals new_commit the graph receives no write; and when
\* update() is left by an exception or an exit before the write, the stored
\* commit_hash is still the old one.
C30_CommitHashWrittenLast ==
    /\ commit_hash = IF CommitWrites = {} THEN updater.stored
                     ELSE updater.new_commit
    /\ CommitWrites # {} =>
        \/ /\ {"purge", "rebuild", "cleanup"} \subseteq updater.completed
           /\ \E k \in 1..Len(graph_writes) :
                graph_writes[k] = "purge_symbols_defined_in_files"
        \/ /\ updater.dirty_files = {} /\ updater.git_changes.deleted = {}
           /\ graph_writes = <<"update_project_node">>
    /\ \A k \in CommitWrites : \A j \in 1..Len(graph_writes) :
          graph_writes[j] \in StructuralWrites \cup {"update_project_node"} /\ j # k
            => j < k /\ graph_writes[j] # "update_project_node"
    /\ (pc \notin {"update", "connected"} /\ updater.old_commit = updater.new_commit)
            => graph_writes = <<>> /\ commit_hash = updater.stored
    /\ (pc \in {"update_raised", "update_exited"} /\ CommitWrites = {})
            => /\ commit_hash = updater.stored
               /\ (updater.args.old_commit = None /\ Truthy(updater.old_commit))
                    => commit_hash = updater.old_commit

\* update() has returned after a purge with deleted files, a rebuild of the
\* mini scope and an orphan cleanup, and the graph stores the new commit.
C30_Witness ==
    /\ pc = "update_returned"
    /\ {"purge", "rebuild", "cleanup"} \subseteq updater.completed
    /\ \E i, j, k \in 1..Len(graph_writes) :
          /\ graph_writes[i] = "purge_files"
          /\ graph_writes[j] = "ingest_call_relations"
          /\ graph_writes[k] = "cleanup_orphan_nodes"
    /\ graph_writes[Len(graph_writes)] = "update_project_node"
    /\ commit_hash = updater.new_commit
    /\ commit_hash # updater.stored

====
